---------------------------- MODULE Spec2Model ----------------------------
(***************************************************************************)
(* A model of the furigana / ruby text-annotation engine of                *)
(* japanese-read-helper (scripts/furigana_helper.py,                       *)
(* scripts/extract-ruby-smart.py, scripts/utils/fix-ruby-newlines.py,      *)
(* scripts/epub-to-text-furigana.py).                                      *)
(*                                                                         *)
(* A Python str is a sequence of Unicode code points (naturals); a list is *)
(* a sequence; a dict is a function on a finite set of keys.  Each         *)
(* component has a specification of its own (SpecAnnot, SpecWalk,          *)
(* SpecDict, SpecVocab, SpecRepair): its Init draws the inputs, its        *)
(* actions are the steps of the code; the variables of the other           *)
(* components stay at their idle values.                                   *)
(***************************************************************************)
EXTENDS Naturals, Integers, Sequences, FiniteSets, TLC

(***************************************************************************)
(* Python str primitives                                                   *)
(***************************************************************************)

\* str.isspace() for one code point: the characters str.strip() removes.
IsSpace(c) ==
    c \in ({9, 10, 11, 12, 13, 28, 29, 30, 31, 32, 133, 160, 5760,
            8232, 8233, 8239, 8287, 12288} \cup (8192..8202))

RECURSIVE LStrip(_)
LStrip(s) ==
    IF s = <<>> THEN <<>>
    ELSE IF IsSpace(Head(s)) THEN LStrip(Tail(s)) ELSE s

RECURSIVE RStrip(_)
RStrip(s) ==
    IF s = <<>> THEN <<>>
    ELSE IF IsSpace(s[Len(s)]) THEN RStrip(SubSeq(s, 1, Len(s) - 1)) ELSE s

\* str.strip()
Strip(s) == RStrip(LStrip(s))

\* ''.join(list)
RECURSIVE Join(_)
Join(ss) == IF ss = <<>> THEN <<>> ELSE Head(ss) \o Join(Tail(ss))

\* sep.join(list) for a one-character separator
RECURSIVE JoinWith(_, _)
JoinWith(ss, sep) ==
    IF ss = <<>> THEN <<>>
    ELSE IF Len(ss) = 1 THEN ss[1]
    ELSE ss[1] \o <<sep>> \o JoinWith(Tail(ss), sep)

\* s[i:].startswith(p), with i counted from 1
HasAt(s, i, p) ==
    /\ i >= 1
    /\ i + Len(p) - 1 <= Len(s)
    /\ \A k \in 1..Len(p) : s[i + k - 1] = p[k]

StartsWith(s, p) == HasAt(s, 1, p)

EndsWith(s, p) == Len(p) <= Len(s) /\ HasAt(s, Len(s) - Len(p) + 1, p)

\* p occurs in s as a contiguous substring
Contains(s, p) == \E i \in 1..(Len(s) + 1) : HasAt(s, i, p)

SetMin(S) == CHOOSE x \in S : \A y \in S : x <= y

\* Literal markup of the f-strings and regular expressions.
RUBY_OPEN == <<60, 114, 117, 98, 121, 62>>            \* "<ruby>"
RUBY_CLOSE == <<60, 47, 114, 117, 98, 121, 62>>       \* "</ruby>"
RT_OPEN == <<60, 114, 116, 62>>                       \* "<rt>"
RT_CLOSE == <<60, 47, 114, 116, 62>>                  \* "</rt>"
RP_OPEN == <<60, 114, 112, 62>>                       \* "<rp>"
RP_CLOSE == <<60, 47, 114, 112, 62>>                  \* "</rp>"
EOS_LINE == <<69, 79, 83>>                            \* "EOS"

(***************************************************************************)
(* furigana_helper.py: character classes                                   *)
(***************************************************************************)

\* The code points of the characters of N4_AND_LOWER_KANJI.
N4_AND_LOWER_KANJI == {
    19968, 19971, 19975, 19977, 19978, 19979, 19981, 20013, 20061, 20108, 20116, 20154,
    20170, 20184, 20241, 20250, 20302, 20303, 20307, 20309, 20316, 20351, 20415, 20511,
    20685, 20803, 20804, 20808, 20837, 20843, 20845, 20869, 20870, 20889, 20986, 20998,
    20999, 21033, 21069, 21147, 21193, 21271, 21313, 21315, 21320, 21322, 21335, 21451,
    21462, 21475, 21476, 21491, 21516, 21517, 21619, 21697, 21839, 22235, 22238, 22269,
    22303, 22768, 22770, 22806, 22810, 22812, 22823, 22825, 22899, 22909, 22969, 22985,
    22987, 23376, 23383, 23398, 23433, 23460, 23478, 23517, 23567, 23569, 23665, 24029,
    24038, 24066, 24112, 24180, 24215, 24230, 24231, 24351, 24375, 24453, 24460, 24515,
    24605, 24746, 24847, 25163, 25345, 25945, 25991, 26032, 26041, 26063, 26085, 26089,
    26126, 26172, 26178, 26217, 26263, 26360, 26376, 26377, 26397, 26408, 26412, 26449,
    26469, 26481, 26519, 26657, 26862, 27491, 27497, 27597, 27598, 27671, 27700, 27927,
    28779, 28961, 29238, 29289, 29356, 29483, 29702, 29983, 30000, 30007, 30010, 30058,
    30333, 30334, 30446, 30495, 30528, 30693, 30701, 31038, 31169, 31435, 31572, 31859,
    32066, 32722, 32771, 32773, 32819, 32862, 32905, 33073, 33394, 33457, 33509, 33590,
    33609, 34892, 35199, 35211, 35299, 35328, 35441, 35486, 35501, 36023, 36024, 36196,
    36208, 36215, 36275, 36554, 36817, 36820, 36865, 36913, 36933, 36947, 36949, 36960,
    37329, 38263, 38272, 38281, 38283, 38291, 38632, 38634, 38651, 38738, 38957, 38996,
    39135, 39154, 39365, 39640, 39770, 40165, 40658
    }

\* 0x4E00..0x9FFF or 0x3400..0x4DBF
is_kanji(code) ==
    (19968 <= code /\ code <= 40959) \/ (13312 <= code /\ code <= 19903)

is_n3_plus_kanji(char) == is_kanji(char) /\ char \notin N4_AND_LOWER_KANJI

has_any_n3_plus_kanji_all(text) ==
    \A i \in 1..Len(text) : is_n3_plus_kanji(text[i])

has_any_n3_plus_kanji(text) ==
    \E i \in 1..Len(text) : is_n3_plus_kanji(text[i])

(***************************************************************************)
(* furigana_helper.py: FuriganaGenerator._katakana_to_hiragana             *)
(***************************************************************************)

LONG_VOWEL_MARK == <<12540>>                          \* "ー"

\* _get_vowel_for_long_mark: the vowel for a long mark after prev_char.
_get_vowel_for_long_mark(prev_char) ==
    IF prev_char \in {12354, 12363, 12364, 12373, 12374, 12383, 12384, 12394,
                      12399, 12400, 12401, 12414, 12420, 12425, 12431}
    THEN 12354                                        \* a-row -> あ
    ELSE IF prev_char \in {12356, 12365, 12366, 12375, 12376, 12385, 12386,
                           12395, 12402, 12403, 12404, 12415, 12426}
    THEN 12356                                        \* i-row -> い
    ELSE IF prev_char \in {12358, 12367, 12368, 12377, 12378, 12388, 12389,
                           12396, 12405, 12406, 12407, 12416, 12422, 12427}
    THEN 12358                                        \* u-row -> う
    ELSE IF prev_char \in {12360, 12369, 12370, 12379, 12380, 12390, 12391,
                           12397, 12408, 12409, 12410, 12417, 12428}
    THEN 12356                                        \* e-row -> い
    ELSE IF prev_char \in {12362, 12371, 12372, 12381, 12382, 12392, 12393,
                           12398, 12411, 12412, 12413, 12418, 12424, 12429,
                           12434}
    THEN 12358                                        \* o-row -> う
    ELSE IF prev_char \in {12419, 12421, 12423}
    THEN 12358                                        \* ゃゅょ -> う
    ELSE IF prev_char \in {12353, 12355, 12357, 12359, 12361}
    THEN CASE prev_char = 12353 -> 12354              \* ぁ -> あ
           [] prev_char = 12355 -> 12356              \* ぃ -> い
           [] prev_char = 12357 -> 12358              \* ぅ -> う
           [] prev_char = 12359 -> 12356              \* ぇ -> い
           [] prev_char = 12361 -> 12358              \* ぉ -> う
    ELSE 12358                                        \* default う

katakana_char_raw_prev(text, i, result, preserve_long_vowel) ==
    IF <<text[i]>> = LONG_VOWEL_MARK
    THEN IF preserve_long_vowel THEN 12540
         ELSE IF i > 1 /\ result # <<>>
              THEN _get_vowel_for_long_mark(text[i - 1])
              ELSE 12540
    ELSE IF 12449 <= text[i] /\ text[i] <= 12534 THEN text[i] - 96
         ELSE text[i]

katakana_char_default_first(text, i, result, preserve_long_vowel) ==
    IF <<text[i]>> = LONG_VOWEL_MARK
    THEN IF preserve_long_vowel THEN 12540
         ELSE IF i > 1 /\ result # <<>>
              THEN _get_vowel_for_long_mark(result[Len(result)])
              ELSE 12358
    ELSE IF 12449 <= text[i] /\ text[i] <= 12534 THEN text[i] - 96
         ELSE text[i]

katakana_char_wide_range(text, i, result, preserve_long_vowel) ==
    IF <<text[i]>> = LONG_VOWEL_MARK
    THEN IF preserve_long_vowel THEN 12540
         ELSE IF i > 1 /\ result # <<>>
              THEN _get_vowel_for_long_mark(result[Len(result)])
              ELSE 12540
    ELSE IF 12448 <= text[i] /\ text[i] <= 12543 THEN text[i] - 96
         ELSE text[i]

\* What one iteration of the loop of _katakana_to_hiragana appends for
\* text[i] (i counted from 1), result being the list built so far.
katakana_char(text, i, result, preserve_long_vowel) ==
    LET char == text[i]
    IN IF <<char>> = LONG_VOWEL_MARK
       THEN IF preserve_long_vowel THEN 12540
            ELSE IF i > 1 /\ result # <<>>
                 THEN _get_vowel_for_long_mark(result[Len(result)])
                 ELSE 12540                              \* keep as-is
       ELSE IF 12449 <= char /\ char <= 12534           \* 0x30A1..0x30F6
            THEN char - 96                               \* code - 0x60
            ELSE char

\* The loop of _katakana_to_hiragana from index i (counted from 1) with the
\* list result built so far.
RECURSIVE KatakanaLoop(_, _, _, _)
KatakanaLoop(text, i, result, preserve_long_vowel) ==
    IF i > Len(text) THEN result
    ELSE KatakanaLoop(text, i + 1,
                      Append(result,
                             katakana_char(text, i, result, preserve_long_vowel)),
                      preserve_long_vowel)

_katakana_to_hiragana(text, preserve_long_vowel) ==
    KatakanaLoop(text, 1, <<>>, preserve_long_vowel)

(***************************************************************************)
(* furigana_helper.py: FuriganaGenerator.add_furigana                      *)
(*                                                                         *)
(* self.tagger.parse(text) is MeCab (external).  Its output is modelled as *)
(* the list of its lines, each line as line.split('\t'): a token line is   *)
(* <<surface, reading>>, followed by the line "EOS" and an empty line.     *)
(* MeCab skips the characters of its SPACE class between tokens (the       *)
(* surface of a node excludes the white space before it), so white space   *)
(* never appears in a surface; the segmentation and the readings are       *)
(* MeCab's choice.                                                         *)
(***************************************************************************)

MeCabSpace == {9, 10, 11, 32}

\* Readings (katakana, or empty) MeCab may attach to a token.
MeCabReadings == {<<>>, <<12488, 12540>>}             \* "", "トー"

\* Number of leading characters of s outside MeCab's SPACE class.
RECURSIVE RunLength(_)
RunLength(s) ==
    IF s = <<>> \/ Head(s) \in MeCabSpace THEN 0 ELSE 1 + RunLength(Tail(s))

\* The token lines MeCab may print for text.
RECURSIVE MeCabTokens(_)
MeCabTokens(text) ==
    IF text = <<>> THEN {<<>>}
    ELSE IF Head(text) \in MeCabSpace THEN MeCabTokens(Tail(text))
    ELSE UNION {
           { <<<<SubSeq(text, 1, k), r>>>> \o rest :
               rest \in MeCabTokens(SubSeq(text, k + 1, Len(text))) } :
           k \in 1..RunLength(text), r \in MeCabReadings }

\* parsed.split('\n') with every line split on '\t'
MeCabParse(text) ==
    { toks \o << <<EOS_LINE>>, <<<<>>>> >> : toks \in MeCabTokens(text) }

\* any(is_kanji(char) for char in surface)
has_kanji(surface) == \E i \in 1..Len(surface) : is_kanji(surface[i])

\* if line == 'EOS' or not line: continue / if len(parts) < 2: continue
line_is_skipped(parts) ==
    \/ parts = <<EOS_LINE>>
    \/ parts = <<<<>>>>
    \/ Len(parts) < 2

\* if surface in self.name_dictionary and has_kanji
uses_dictionary(surface, name_dictionary) ==
    surface \in DOMAIN name_dictionary /\ has_kanji(surface)

has_mecab_reading_unchecked(parts) == Len(parts) >= 2

\* elif len(parts) >= 2 and parts[1]
has_mecab_reading(parts) == Len(parts) >= 2 /\ parts[2] # <<>>

hiragana_reading_mecab_first(parts, name_dictionary, preserve_long_vowel) ==
    IF has_mecab_reading(parts)
    THEN _katakana_to_hiragana(parts[2], preserve_long_vowel)
    ELSE name_dictionary[parts[1]]

\* hiragana_reading: the dictionary value in the dictionary branch, the
\* converted MeCab reading in the MeCab branch.
hiragana_reading(parts, name_dictionary, preserve_long_vowel) ==
    IF uses_dictionary(parts[1], name_dictionary)
    THEN name_dictionary[parts[1]]
    ELSE _katakana_to_hiragana(parts[2], preserve_long_vowel)

\* f'<ruby>{surface}<rt>{hiragana_reading}</rt></ruby>'
ruby_span(surface, reading) ==
    RUBY_OPEN \o surface \o RT_OPEN \o reading \o RT_CLOSE \o RUBY_CLOSE

\* The string one line of MeCab's output appends to result.
add_furigana_line(parts, name_dictionary, filter_n3_plus, preserve_long_vowel) ==
    LET surface == parts[1]
        span == ruby_span(surface,
                    hiragana_reading(parts, name_dictionary, preserve_long_vowel))
        filtered == IF filter_n3_plus
                    THEN IF has_any_n3_plus_kanji(surface) THEN span ELSE surface
                    ELSE span
    IN IF uses_dictionary(surface, name_dictionary) THEN filtered
       ELSE IF has_mecab_reading(parts)
            THEN IF has_kanji(surface) THEN filtered ELSE surface
            ELSE surface

\* The whole loop over the lines of parsed, for callers of add_furigana.
RECURSIVE add_furigana_loop(_, _, _, _)
add_furigana_loop(parsed, name_dictionary, filter_n3_plus, preserve_long_vowel) ==
    IF parsed = <<>> THEN <<>>
    ELSE (IF line_is_skipped(Head(parsed)) THEN <<>>
          ELSE add_furigana_line(Head(parsed), name_dictionary, filter_n3_plus,
                                 preserve_long_vowel))
         \o add_furigana_loop(Tail(parsed), name_dictionary, filter_n3_plus,
                              preserve_long_vowel)

(***************************************************************************)
(* furigana_helper.py: clean_existing_ruby_tags                            *)
(***************************************************************************)

\* One match of <ruby>([^<>]*?)<rt>.*?</rt></ruby> starting at i:
\* [ok, base (group 1), next (the index after the match)].
RubyMatchAt(s, i) ==
    LET fail == [ok |-> FALSE, base |-> <<>>, next |-> i]
        b == i + Len(RUBY_OPEN)
        stops == {j \in b..Len(s) : s[j] \in {60, 62}}
        j == IF stops = {} THEN Len(s) + 1 ELSE SetMin(stops)
        r == j + Len(RT_OPEN)
        tail == RT_CLOSE \o RUBY_CLOSE
        ends == {k \in r..Len(s) :
                    /\ HasAt(s, k, tail)
                    /\ \A m \in r..(k - 1) : s[m] # 10}
    IN IF ~HasAt(s, i, RUBY_OPEN) THEN fail
       ELSE IF ~HasAt(s, j, RT_OPEN) THEN fail
       ELSE IF ends = {} THEN fail
       ELSE [ok |-> TRUE, base |-> SubSeq(s, b, j - 1),
             next |-> SetMin(ends) + Len(tail)]

\* re.sub(r'<ruby>([^<>]*?)<rt>.*?</rt></ruby>', r'\1', s) from index i
RECURSIVE RubySub(_, _)
RubySub(s, i) ==
    IF i > Len(s) THEN <<>>
    ELSE LET m == RubyMatchAt(s, i)
         IN IF m.ok THEN m.base \o RubySub(s, m.next)
            ELSE <<s[i]>> \o RubySub(s, i + 1)

\* while len(cleaned) != prev_length: ...
RECURSIVE RubySubLoop(_)
RubySubLoop(cleaned) ==
    LET next == RubySub(cleaned, 1)
    IN IF Len(next) = Len(cleaned) THEN next ELSE RubySubLoop(next)

\* re.sub(r'<rp>.*?</rp>', '', s) from index i
RECURSIVE RpSub(_, _)
RpSub(s, i) ==
    IF i > Len(s) THEN <<>>
    ELSE LET r == i + Len(RP_OPEN)
             ends == {k \in r..Len(s) :
                         /\ HasAt(s, k, RP_CLOSE)
                         /\ \A m \in r..(k - 1) : s[m] # 10}
         IN IF HasAt(s, i, RP_OPEN) /\ ends # {}
            THEN RpSub(s, SetMin(ends) + Len(RP_CLOSE))
            ELSE <<s[i]>> \o RpSub(s, i + 1)

clean_existing_ruby_tags(text) == RpSub(RubySubLoop(text), 1)

(***************************************************************************)
(* State                                                                   *)
(***************************************************************************)

VARIABLES
    \* FuriganaGenerator.add_furigana
    af_text,              \* the argument text
    af_name_dictionary,   \* self.name_dictionary
    af_filter,            \* the argument filter_n3_plus
    af_preserve,          \* self.preserve_long_vowel
    af_parsed,            \* parsed.split('\n'), each line split on '\t'
    af_i,                 \* index of the next line of af_parsed (from 1)
    af_result,            \* the list result
    af_from,              \* for each entry of result, the line it came from
    af_ret,               \* the returned string
    af_pc                 \* "call", "loop", "join", "done"

VARIABLES
    \* process_epub_to_text, pass 1 (epub-to-text-furigana.py)
    nd_k,                 \* number of items of book.get_items() handled
    nd_doc,               \* the ruby tags of the last document parsed
    nd_chapter_dict,      \* chapter_dict of the last document
    nd_name_dictionary,   \* name_dictionary
    nd_seen,              \* occurrences of each (term, reading) in all documents so far
    nd_pc                 \* "loop", "done"

dictVars == <<nd_k, nd_doc, nd_chapter_dict, nd_name_dictionary, nd_seen, nd_pc>>

VARIABLES
    \* extract_words_from_html (extract-ruby-smart.py)
    ew_html,              \* html_content: the sibling list as parsed
    ew_nodes,             \* soup: the sibling list, as the calls of
                          \* extract_ruby_base have left its ruby tags
    ew_k,                 \* index into rubies of the loop variable ruby
    ew_processed,         \* processed_rubies (positions in ew_nodes)
    ew_absorbed,          \* the positions added by the compound merge
    ew_words,             \* words: word -> reading of its WordEntry
    ew_base,              \* base
    ew_reading,           \* reading
    ew_current,           \* position of current_ruby
    ew_merged,            \* (base, reading) when the compound merge ended
    ew_found,             \* found_suffix
    ew_pc                 \* "next", "merge", "okurigana", "store", "done"

vocabVars == <<ew_html, ew_nodes, ew_k, ew_processed, ew_absorbed, ew_words, ew_base,
               ew_reading, ew_current, ew_merged, ew_found, ew_pc>>

VARIABLES
    \* fix_ruby_newlines (utils/fix-ruby-newlines.py)
    fr_input,             \* the content first given
    fr_content,           \* the argument content of the current call
    fr_lines,             \* lines
    fr_passes,            \* passes of the for loop begun so far
    fr_changed,           \* changed of the last pass
    fr_prev_fired,        \* whether should_merge_with_prev ever returned True
    fr_out,               \* the returned string
    fr_first,             \* the string the first call returned
    fr_run,               \* 1: first call, 2: call on the first call's output
    fr_pc                 \* "split", "pass", "join", "done"

repairVars == <<fr_input, fr_content, fr_lines, fr_passes, fr_changed,
                fr_prev_fired, fr_out, fr_first, fr_run, fr_pc>>

VARIABLES
    \* preserve_existing_ruby (furigana_helper.py)
    pw_html,              \* the parsed input markup, as first given
    pw_soup,              \* soup: the tree the function edits
    pw_generator,         \* generator: [name_dictionary, preserve_long_vowel]
    pw_filter,            \* filter_n3_plus
    pw_image_counter,     \* image_counter
    pw_calls,             \* calls of generator.add_furigana: [text, path]
    pw_text,              \* text
    pw_ret,               \* the returned string
    pw_pc                 \* "decompose", "images", "extract", "cleanup", "done"

walkVars == <<pw_html, pw_soup, pw_generator, pw_filter, pw_image_counter,
              pw_calls, pw_text, pw_ret, pw_pc>>

VARIABLES
    \* _katakana_to_hiragana (furigana_helper.py)
    kh_text,              \* text
    kh_preserve,          \* preserve_long_vowel
    kh_i,                 \* index of the next character (from 1)
    kh_result,            \* result
    kh_ret,               \* the returned string
    kh_pc                 \* "loop", "done"

kanaVars == <<kh_text, kh_preserve, kh_i, kh_result, kh_ret, kh_pc>>

VARIABLES
    \* main of extract-ruby-smart.py, one book
    bk_items,             \* book.get_items(): [document, nodes]
    bk_k,                 \* items gone through so far
    bk_chapter_words,     \* chapter_words of the last document
    bk_all_words,         \* all_words
    bk_pc                 \* "loop", "done", "failed"

bookVars == <<bk_items, bk_k, bk_chapter_words, bk_all_words, bk_pc>>

VARIABLES
    \* extract_ruby_dictionary (furigana_helper.py), one document
    rd_rubies,            \* soup.find_all('ruby')
    rd_i,                 \* index of the next ruby tag (from 1)
    rd_frequency,         \* frequency: the items of the Counter, in order
    rd_ruby_dict,         \* ruby_dict
    rd_final,             \* final_dict
    rd_pc                 \* "loop", "done"

termVars == <<rd_rubies, rd_i, rd_frequency, rd_ruby_dict, rd_final, rd_pc>>

VARIABLES
    \* parse_sections, find_duplicates, sections_to_content
    \* (utils/dedupe-rephrase-file.py), as process_file calls them
    dd_content,           \* content
    dd_lines,             \* lines = content.split('\n')
    dd_i,                 \* index of the next line (from 1)
    dd_sections,          \* sections
    dd_current,           \* current_section: <<>> for None, else <<section>>
    dd_unique,            \* unique
    dd_removed,           \* removed
    dd_new_content,       \* new_content
    dd_pc                 \* "split", "parse", "find", "write", "done"

dedupeVars == <<dd_content, dd_lines, dd_i, dd_sections, dd_current, dd_unique,
                dd_removed, dd_new_content, dd_pc>>

VARIABLES
    \* ruby-registry.json of one book directory, as extract-all-ruby.py,
    \* migrate-ruby-registry.py and extract-ruby-smart.py write it
    rg_exists,            \* registry_path.exists()
    rg_entries,           \* registry['entries']: records [kanji, reading, source]
    rg_updates,           \* number of script runs on the directory so far
    rg_script             \* the script that ran last ("": none yet)

registryVars == <<rg_exists, rg_entries, rg_updates, rg_script>>

VARIABLES
    \* one character put to the kanji tests of the three components
    cl_char,              \* the character (code point)
    cl_annot,             \* is_kanji(char) (furigana_helper.py)
    cl_vocab,             \* is_all_kanji(char) (extract-ruby-smart.py)
    cl_repair,            \* KANJI_PATTERN / KANJI_START / KANJI_END match
                          \* the one-character line (fix-ruby-newlines.py)
    cl_pc                 \* "annot", "vocab", "repair", "done"

classVars == <<cl_char, cl_annot, cl_vocab, cl_repair, cl_pc>>

VARIABLES
    \* one call of should_merge_with_next
    mg_current,           \* current_line
    mg_next,              \* next_line
    mg_ret,               \* the value returned
    mg_pc                 \* "call", "done"

mergeVars == <<mg_current, mg_next, mg_ret, mg_pc>>

annotVars == <<af_text, af_name_dictionary, af_filter, af_preserve, af_parsed,
               af_i, af_result, af_from, af_ret, af_pc>>

(***************************************************************************)
(* SpecAnnot: one call of add_furigana                                     *)
(***************************************************************************)

MaxTextLen == 3

\* 行 (elementary), 留 (not elementary), い, space
AnnotChars == {34892, 30041, 12356, 32}

AnnotTexts == UNION {[1..n -> AnnotChars] : n \in 0..MaxTextLen}

EmptyDictionary == [s \in {} |-> <<>>]

\* {"留": "と", "行": "い", "い": "あ"}
SampleDictionary ==
    [s \in {<<30041>>, <<34892>>, <<12356>>} |->
        IF s = <<30041>> THEN <<12392>>
        ELSE IF s = <<34892>> THEN <<12356>>
        ELSE <<12354>>]

AnnotDictionaries == {EmptyDictionary, SampleDictionary}

AnnotInit ==
    /\ af_text \in AnnotTexts
    /\ af_name_dictionary \in AnnotDictionaries
    /\ af_filter \in BOOLEAN
    /\ af_preserve \in BOOLEAN
    /\ af_parsed = <<>>
    /\ af_i = 1
    /\ af_result = <<>>
    /\ af_from = <<>>
    /\ af_ret = <<>>
    /\ af_pc = "call"

AnnotIdle ==
    /\ af_text = <<>>
    /\ af_name_dictionary = EmptyDictionary
    /\ af_filter = FALSE
    /\ af_preserve = FALSE
    /\ af_parsed = <<>>
    /\ af_i = 1
    /\ af_result = <<>>
    /\ af_from = <<>>
    /\ af_ret = <<>>
    /\ af_pc = "idle"

\* if not text or not text.strip(): return text
AddFuriganaBlank ==
    /\ af_pc = "call"
    /\ af_text = <<>> \/ Strip(af_text) = <<>>
    /\ af_ret' = af_text
    /\ af_pc' = "done"
    /\ UNCHANGED <<af_text, af_name_dictionary, af_filter, af_preserve,
                   af_parsed, af_i, af_result, af_from>>

\* result = []; parsed = self.tagger.parse(text)
AddFuriganaParse ==
    /\ af_pc = "call"
    /\ ~(af_text = <<>> \/ Strip(af_text) = <<>>)
    /\ af_parsed' \in MeCabParse(af_text)
    /\ af_i' = 1
    /\ af_result' = <<>>
    /\ af_from' = <<>>
    /\ af_pc' = "loop"
    /\ UNCHANGED <<af_text, af_name_dictionary, af_filter, af_preserve, af_ret>>

\* one iteration of: for line in parsed.split('\n')
AddFuriganaLine ==
    /\ af_pc = "loop"
    /\ af_i <= Len(af_parsed)
    /\ LET parts == af_parsed[af_i]
       IN IF line_is_skipped(parts)
          THEN UNCHANGED <<af_result, af_from>>
          ELSE /\ af_result' = Append(af_result,
                      add_furigana_line(parts, af_name_dictionary, af_filter,
                                        af_preserve))
               /\ af_from' = Append(af_from, af_i)
    /\ af_i' = af_i + 1
    /\ UNCHANGED <<af_text, af_name_dictionary, af_filter, af_preserve,
                   af_parsed, af_ret, af_pc>>

\* return ''.join(result)
AddFuriganaReturn ==
    /\ af_pc = "loop"
    /\ af_i > Len(af_parsed)
    /\ af_ret' = Join(af_result)
    /\ af_pc' = "done"
    /\ UNCHANGED <<af_text, af_name_dictionary, af_filter, af_preserve,
                   af_parsed, af_i, af_result, af_from>>

AnnotNext ==
    \/ AddFuriganaBlank
    \/ AddFuriganaParse
    \/ AddFuriganaLine
    \/ AddFuriganaReturn

(***************************************************************************)
(* Claims about add_furigana (SpecAnnot)                                   *)
(***************************************************************************)

\* The line of MeCab's output that produced entry n of result.
EmittedParts(n) == af_parsed[af_from[n]]

IsRubySpan(s) == StartsWith(s, RUBY_OPEN)

\* C1: once add_furigana has returned, replacing every ruby span of the
\* returned string by its base text yields the argument text exactly.
C1_LosslessReconstruction ==
    af_pc = "done" => clean_existing_ruby_tags(af_ret) = af_text

\* C3: every ruby span emitted for a token whose surface is a key of the name
\* dictionary carries the dictionary value as its reading, whatever reading
\* MeCab returned, with and without the filter.
C3_DictionaryPrecedence ==
    \A n \in 1..Len(af_result) :
        LET surface == EmittedParts(n)[1]
        IN (surface \in DOMAIN af_name_dictionary /\ IsRubySpan(af_result[n]))
           => af_result[n] = ruby_span(surface, af_name_dictionary[surface])

\* C3 witness: a ruby span was emitted for a dictionary key although MeCab
\* returned a reading of its own that converts to something else.
C3_Witness ==
    \E n \in 1..Len(af_result) :
        LET parts == EmittedParts(n)
        IN /\ parts[1] \in DOMAIN af_name_dictionary
           /\ IsRubySpan(af_result[n])
           /\ parts[2] # <<>>
           /\ _katakana_to_hiragana(parts[2], af_preserve)
                  # af_name_dictionary[parts[1]]

\* C6 as stated: a token for which MeCab returned no reading is emitted as
\* its bare surface, whether or not the surface is a dictionary key.
C6_NoReadingBareSurface ==
    \A n \in 1..Len(af_result) :
        EmittedParts(n)[2] = <<>> => af_result[n] = EmittedParts(n)[1]

\* C6 amended: a token for which MeCab returned no reading is emitted as its
\* bare surface unless the surface contains kanji and is a dictionary key;
\* then the dictionary reading is used as for any other token (a ruby span
\* with the dictionary value, or the bare surface when the filter is on and
\* every kanji of the surface is elementary).  Every token line is emitted.
C6_NoReadingAmended ==
    /\ \A n \in 1..Len(af_result) :
          LET surface == EmittedParts(n)[1]
              keyed == /\ surface \in DOMAIN af_name_dictionary
                       /\ \E k \in 1..Len(surface) : is_kanji(surface[k])
              elementary == \A k \in 1..Len(surface) :
                               is_kanji(surface[k])
                                   => surface[k] \in N4_AND_LOWER_KANJI
          IN EmittedParts(n)[2] = <<>> =>
                af_result[n] =
                    IF keyed /\ ~(af_filter /\ elementary)
                    THEN ruby_span(surface, af_name_dictionary[surface])
                    ELSE surface
    /\ af_pc = "done" /\ af_parsed # <<>>
          => Len(af_result) = Len(af_parsed) - 2

\* C6 witness: a kanji token without a MeCab reading and without a dictionary
\* entry was emitted bare, and so was a token that is a dictionary key with
\* no kanji; the call has returned.
C6_Witness ==
    /\ af_pc = "done"
    /\ \E n \in 1..Len(af_result) :
          /\ EmittedParts(n)[2] = <<>>
          /\ has_kanji(EmittedParts(n)[1])
          /\ EmittedParts(n)[1] \notin DOMAIN af_name_dictionary
          /\ af_result[n] = EmittedParts(n)[1]
    /\ \E n \in 1..Len(af_result) :
          /\ EmittedParts(n)[2] = <<>>
          /\ ~has_kanji(EmittedParts(n)[1])
          /\ EmittedParts(n)[1] \in DOMAIN af_name_dictionary
          /\ af_result[n] = EmittedParts(n)[1]

\* C7: for a text without any kanji, add_furigana returns the text unchanged
\* and without a ruby span.
C7_KanjiFreeUnchanged ==
    (af_pc = "done" /\ \A k \in 1..Len(af_text) : ~is_kanji(af_text[k]))
        => (af_ret = af_text /\ ~Contains(af_ret, RUBY_OPEN))

\* C8: for a token that contains kanji and has a reading available (a
\* dictionary entry or a MeCab reading): with the filter on a ruby span is
\* emitted exactly when some kanji of the surface is outside the elementary
\* set, and otherwise the bare surface, also for a dictionary reading; with
\* the filter off a ruby span is always emitted.
C8_FilterMode ==
    \A n \in 1..Len(af_result) :
        LET parts == EmittedParts(n)
            surface == parts[1]
            kanji == {k \in 1..Len(surface) : is_kanji(surface[k])}
            advanced == \E k \in kanji : surface[k] \notin N4_AND_LOWER_KANJI
            available == surface \in DOMAIN af_name_dictionary \/ parts[2] # <<>>
        IN (kanji # {} /\ available) =>
              IF af_filter
              THEN /\ IsRubySpan(af_result[n]) <=> advanced
                   /\ ~advanced => af_result[n] = surface
              ELSE IsRubySpan(af_result[n])

\* C8 witness: with the filter on, a token of elementary kanji whose reading
\* comes from the dictionary was emitted bare, and a token mixing an
\* elementary and a non-elementary kanji got a ruby span.
C8_Witness ==
    /\ af_filter
    /\ \E n \in 1..Len(af_result) :
          /\ EmittedParts(n)[1] = <<34892>>
          /\ <<34892>> \in DOMAIN af_name_dictionary
          /\ af_result[n] = <<34892>>
    /\ \E n \in 1..Len(af_result) :
          /\ EmittedParts(n)[1] = <<34892, 30041>>
          /\ IsRubySpan(af_result[n])

(***************************************************************************)
(* furigana_helper.py: extract_ruby_dictionary                             *)
(*                                                                         *)
(* A document is the list soup.find_all('ruby') in document order; a ruby  *)
(* tag is [rt, base, reading]: whether it has an <rt> child, the join of   *)
(* its direct text children, and rt_tag.get_text().                        *)
(***************************************************************************)

\* frequency[key] += 1 on a Counter kept as the list of its items in
\* insertion order
CounterAdd(frequency, key) ==
    IF \E n \in 1..Len(frequency) : frequency[n].key = key
    THEN [n \in 1..Len(frequency) |->
             IF frequency[n].key = key
             THEN [frequency[n] EXCEPT !.count = @ + 1]
             ELSE frequency[n]]
    ELSE Append(frequency, [key |-> key, count |-> 1])

\* The Counter after the loop over the ruby tags (lines 361-378).
RECURSIVE RubyFrequency(_, _)
RubyFrequency(rubies, frequency) ==
    IF rubies = <<>> THEN frequency
    ELSE LET ruby_tag == Head(rubies)
         IN IF ~ruby_tag.rt THEN RubyFrequency(Tail(rubies), frequency)
            ELSE IF ruby_tag.base # <<>> /\ ruby_tag.reading # <<>>
                 THEN RubyFrequency(Tail(rubies),
                          CounterAdd(frequency,
                                     <<ruby_tag.base, ruby_tag.reading>>))
                 ELSE RubyFrequency(Tail(rubies), frequency)

MaxByCountLast(readings_for_base) ==
    LET best == CHOOSE n \in 1..Len(readings_for_base) :
                   /\ \A m \in 1..Len(readings_for_base) :
                         readings_for_base[m].count <= readings_for_base[n].count
                   /\ \A m \in (n + 1)..Len(readings_for_base) :
                         readings_for_base[m].count < readings_for_base[n].count
    IN readings_for_base[best].key[2]

\* max(readings_for_base, key=lambda x: x[1])[0]: the first item with the
\* highest count
MaxByCount(readings_for_base) ==
    LET best == CHOOSE n \in 1..Len(readings_for_base) :
                   /\ \A m \in 1..Len(readings_for_base) :
                         readings_for_base[m].count <= readings_for_base[n].count
                   /\ \A m \in 1..(n - 1) :
                         readings_for_base[m].count < readings_for_base[n].count
    IN readings_for_base[best].key[2]

\* [(reading, count) for (b, reading), count in frequency.items() if b == base]
RECURSIVE ReadingsForBase(_, _)
ReadingsForBase(frequency, base_text) ==
    IF frequency = <<>> THEN <<>>
    ELSE (IF Head(frequency).key[1] = base_text THEN <<Head(frequency)>> ELSE <<>>)
         \o ReadingsForBase(Tail(frequency), base_text)

extract_ruby_dictionary(rubies) ==
    LET frequency == RubyFrequency(rubies, <<>>)
        base_texts == {frequency[n].key[1] : n \in 1..Len(frequency)}
    IN [base_text \in base_texts |->
           MaxByCount(ReadingsForBase(frequency, base_text))]

\* epub-to-text-furigana.py: name_dictionary.update(chapter_dict)
DictUpdate(name_dictionary, chapter_dict) ==
    [k \in DOMAIN name_dictionary \cup DOMAIN chapter_dict |->
        IF k \in DOMAIN chapter_dict THEN chapter_dict[k]
        ELSE name_dictionary[k]]

(***************************************************************************)
(* SpecDict: pass 1 of process_epub_to_text builds name_dictionary         *)
(***************************************************************************)

MaxDocs == 3
MaxRubies == 2

\* 留/と, 留/る, い/い, and a ruby tag without <rt>
DictRubyTags ==
    { [rt |-> TRUE, base |-> <<30041>>, reading |-> <<12392>>],
      [rt |-> TRUE, base |-> <<30041>>, reading |-> <<12427>>],
      [rt |-> TRUE, base |-> <<12356>>, reading |-> <<12356>>],
      [rt |-> FALSE, base |-> <<23432>>, reading |-> <<>>] }

DictDocuments == UNION {[1..n -> DictRubyTags] : n \in 0..MaxRubies}

DictPairs == {<<r.base, r.reading>> : r \in {x \in DictRubyTags : x.rt}}

\* Occurrences of pair among the ruby tags of a document.
RECURSIVE Occurrences(_, _)
Occurrences(rubies, pair) ==
    IF rubies = <<>> THEN 0
    ELSE (IF Head(rubies).rt /\ <<Head(rubies).base, Head(rubies).reading>> = pair
          THEN 1 ELSE 0) + Occurrences(Tail(rubies), pair)

DictInit ==
    /\ nd_k = 0
    /\ nd_doc = <<>>
    /\ nd_chapter_dict = EmptyDictionary
    /\ nd_name_dictionary = EmptyDictionary
    /\ nd_seen = [p \in DictPairs |-> 0]
    /\ nd_pc = "loop"

DictIdle ==
    /\ nd_k = 0
    /\ nd_doc = <<>>
    /\ nd_chapter_dict = EmptyDictionary
    /\ nd_name_dictionary = EmptyDictionary
    /\ nd_seen = [p \in DictPairs |-> 0]
    /\ nd_pc = "idle"

\* One ITEM_DOCUMENT of book.get_items(): chapter_dict =
\* extract_ruby_dictionary(html_content); name_dictionary.update(chapter_dict)
DictChapter ==
    /\ nd_pc = "loop"
    /\ nd_k < MaxDocs
    /\ \E doc \in DictDocuments :
          /\ nd_doc' = doc
          /\ nd_chapter_dict' = extract_ruby_dictionary(doc)
          /\ nd_name_dictionary' =
                 DictUpdate(nd_name_dictionary, extract_ruby_dictionary(doc))
          /\ nd_seen' = [p \in DictPairs |-> nd_seen[p] + Occurrences(doc, p)]
    /\ nd_k' = nd_k + 1
    /\ UNCHANGED nd_pc

\* except Exception: continue (a chapter that fails to decode or parse)
DictChapterFails ==
    /\ nd_pc = "loop"
    /\ nd_k < MaxDocs
    /\ nd_k' = nd_k + 1
    /\ UNCHANGED <<nd_doc, nd_chapter_dict, nd_name_dictionary, nd_seen, nd_pc>>

\* the loop over book.get_items() ends
DictDone ==
    /\ nd_pc = "loop"
    /\ nd_pc' = "done"
    /\ UNCHANGED <<nd_k, nd_doc, nd_chapter_dict, nd_name_dictionary, nd_seen>>

DictNext == DictChapter \/ DictChapterFails \/ DictDone

\* C4: when the dictionary is complete, a term for which one reading has a
\* strictly higher occurrence count over all the documents than every other
\* reading of the term is mapped to that reading.
C4_AccumulatedFrequency ==
    nd_pc = "done" =>
        \A p \in DictPairs :
            (/\ nd_seen[p] > 0
             /\ \A q \in DictPairs :
                   (q[1] = p[1] /\ q # p) => nd_seen[q] < nd_seen[p])
            => (p[1] \in DOMAIN nd_name_dictionary
                /\ nd_name_dictionary[p[1]] = p[2])

(***************************************************************************)
(* extract-ruby-smart.py: tables and helpers                               *)
(*                                                                         *)
(* The children of one parent element are a list of nodes                  *)
(* [kind, rt, base, reading, text]: a ruby tag ("ruby": whether it has an  *)
(* <rt> child, its text without <rt>/<rp>, the text of its first <rt>), a  *)
(* NavigableString ("text") or another element ("tag").                    *)
(***************************************************************************)

REPETITION_MARK == <<12293>>                          \* "々"

PARTICLES == {
    <<12363>>, <<12364>>, <<12373>>, <<12380>>,
    <<12382>>, <<12391>>, <<12392>>, <<12395>>,
    <<12397>>, <<12398>>, <<12399>>, <<12400>>,
    <<12408>>, <<12418>>, <<12420>>, <<12424>>,
    <<12425>>, <<12431>>, <<12434>>, <<12363, 12425>>,
    <<12384, 12369>>, <<12394, 12393>>, <<12411, 12393>>, <<12414, 12391>>,
    <<12424, 12426>>, <<12367, 12425, 12356>>, <<12400, 12363, 12426>>
    }

VALID_OKURIGANA == {
    <<12356>>, <<12358>>, <<12360>>, <<12365>>,
    <<12366>>, <<12367>>, <<12368>>, <<12369>>,
    <<12370>>, <<12373>>, <<12375>>, <<12376>>,
    <<12377>>, <<12378>>, <<12379>>, <<12383>>,
    <<12384>>, <<12385>>, <<12386>>, <<12388>>,
    <<12390>>, <<12391>>, <<12396>>, <<12397>>,
    <<12402>>, <<12403>>, <<12404>>, <<12406>>,
    <<12409>>, <<12415>>, <<12416>>, <<12417>>,
    <<12426>>, <<12427>>, <<12428>>, <<12354, 12427>>,
    <<12356, 12383>>, <<12356, 12384>>, <<12356, 12390>>, <<12356, 12391>>,
    <<12356, 12427>>, <<12358, 12427>>, <<12360, 12427>>, <<12362, 12427>>,
    <<12363, 12356>>, <<12364, 12356>>, <<12365, 12383>>, <<12365, 12390>>,
    <<12365, 12427>>, <<12367, 12356>>, <<12368, 12356>>, <<12369, 12427>>,
    <<12370, 12427>>, <<12371, 12358>>, <<12373, 12356>>, <<12375, 12356>>,
    <<12375, 12383>>, <<12375, 12390>>, <<12376, 12427>>, <<12379, 12427>>,
    <<12381, 12358>>, <<12383, 12356>>, <<12383, 12367>>, <<12385, 12427>>,
    <<12387, 12383>>, <<12387, 12390>>, <<12390, 12427>>, <<12391, 12427>>,
    <<12394, 12356>>, <<12394, 12367>>, <<12395, 12427>>, <<12397, 12427>>,
    <<12402, 12427>>, <<12403, 12427>>, <<12409, 12427>>, <<12414, 12356>>,
    <<12414, 12377>>, <<12415, 12427>>, <<12417, 12427>>, <<12422, 12356>>,
    <<12424, 12358>>, <<12425, 12356>>, <<12426, 12427>>, <<12428, 12427>>,
    <<12431, 12427>>, <<12435, 12384>>, <<12435, 12391>>, <<12373, 12379, 12427>>,
    <<12414, 12375, 12383>>, <<12414, 12379, 12435>>, <<12425, 12428, 12427>>, <<12394, 12363, 12387, 12383>>,
    <<12414, 12375, 12423, 12358>>
    }

\* KANJI_PATTERN.match(c): [一-龯㐀-䶿]
KANJI_PATTERN(c) ==
    (19968 <= c /\ c <= 40879) \/ (13312 <= c /\ c <= 19903)

is_all_kanji(text) ==
    /\ text # <<>>
    /\ \A i \in 1..Len(text) :
          KANJI_PATTERN(text[i]) \/ <<text[i]>> = REPETITION_MARK

\* ruby_tag.find('rt'): the position of the first <rt> child (0: None)
find_rt(children) ==
    LET found == {i \in 1..Len(children) : children[i].tag = "rt"}
    IN IF found = {} THEN 0 ELSE SetMin(found)

\* for rp in ruby_tag.find_all('rp'): rp.decompose(); rt_copy = rt.extract():
\* the children left in the tag
without_rp_and_rt(children) ==
    LET rt == find_rt(children)
        kept == SelectSeq([i \in 1..Len(children) |-> i],
                          LAMBDA i : i # rt /\ children[i].tag # "rp")
    IN [k \in 1..Len(kept) |-> children[kept[k]]]

\* ruby_tag.get_text(): the strings of the tag itself, in order; the strings
\* inside <rt> and <rp> children are ruby text, which get_text() of the
\* ruby tag leaves out
RECURSIVE get_text(_)
get_text(children) ==
    IF children = <<>> THEN <<>>
    ELSE (IF Head(children).tag = "" THEN Head(children).text ELSE <<>>)
         \o get_text(Tail(children))

\* extract_ruby_base: (base, reading) of a ruby tag, ('', '') without <rt>;
\* the reading is the text of the first <rt>
extract_ruby_base(node) ==
    IF node.kind # "ruby" \/ find_rt(node.children) = 0 THEN <<<<>>, <<>>>>
    ELSE <<Strip(get_text(without_rp_and_rt(node.children))),
           Strip(node.children[find_rt(node.children)].text)>>

\* the tag as extract_ruby_base leaves it: the <rp> children removed and the
\* first <rt> moved to the end (ruby_tag.append(rt_copy))
extract_ruby_base_tag(node) ==
    IF node.kind # "ruby" \/ find_rt(node.children) = 0 THEN node
    ELSE [node EXCEPT !.children =
             without_rp_and_rt(node.children)
                 \o <<node.children[find_rt(node.children)]>>]

\* the sibling list after extract_ruby_base(nodes[pos]) (pos = 0: no call)
after_extract(nodes, pos) ==
    [p \in 1..Len(nodes) |->
        IF p = pos THEN extract_ruby_base_tag(nodes[p]) ELSE nodes[p]]

\* get_next_sibling_ruby: the position of the next sibling if it is a ruby
\* tag, skipping white-space strings; 0 for None
RECURSIVE get_next_sibling_ruby(_, _)
get_next_sibling_ruby(nodes, pos) ==
    IF pos + 1 > Len(nodes) THEN 0
    ELSE LET sibling == nodes[pos + 1]
         IN IF sibling.kind = "text"
            THEN IF Strip(sibling.text) = <<>>
                 THEN get_next_sibling_ruby(nodes, pos + 1)
                 ELSE 0
            ELSE IF sibling.kind = "ruby" THEN pos + 1
            ELSE 0

\* get_trailing_text: the next sibling when it is a string, else ''
get_trailing_text(nodes, pos) ==
    IF pos + 1 <= Len(nodes) /\ nodes[pos + 1].kind = "text"
    THEN nodes[pos + 1].text
    ELSE <<>>

\* HIRAGANA_PATTERN.match(trailing): ^[぀-ゟー]+ (<<>>: no match)
RECURSIVE HIRAGANA_PATTERN(_)
HIRAGANA_PATTERN(trailing) ==
    IF trailing = <<>> THEN <<>>
    ELSE IF (12352 <= Head(trailing) /\ Head(trailing) <= 12447)
            \/ Head(trailing) = 12540
         THEN <<Head(trailing)>> \o HIRAGANA_PATTERN(Tail(trailing))
         ELSE <<>>

SetMax(S) == CHOOSE x \in S : \A y \in S : y <= x

found_suffix_short_first(trailing, base) ==
    LET okurigana == HIRAGANA_PATTERN(trailing)
        candidate == SubSeq(okurigana, 1,
                            IF Len(okurigana) < 4 THEN Len(okurigana) ELSE 4)
        lengths == {i \in 1..Len(candidate) :
                       /\ SubSeq(candidate, 1, i) \in VALID_OKURIGANA
                       /\ i = 1 => SubSeq(candidate, 1, 1) \notin PARTICLES}
    IN IF lengths = {} THEN <<>> ELSE SubSeq(candidate, 1, SetMin(lengths))

found_suffix_volitional_only(trailing, base) ==
    LET okurigana == HIRAGANA_PATTERN(trailing)
        candidate == SubSeq(okurigana, 1,
                            IF Len(okurigana) < 4 THEN Len(okurigana) ELSE 4)
        lengths == {i \in 2..Len(candidate) :
                       SubSeq(candidate, 1, i) \in VALID_OKURIGANA}
        char == SubSeq(candidate, 1, 1)
    IN IF okurigana = <<>> THEN <<>>
       ELSE IF lengths # {} THEN SubSeq(candidate, 1, SetMax(lengths))
       ELSE IF /\ char \in VALID_OKURIGANA
               /\ char \notin PARTICLES \cup {<<12358>>}
            THEN char
       ELSE IF /\ char = <<12358>>
               /\ base # <<>>
               /\ base[Len(base)] \in {12371, 12381, 12424, 12429}
            THEN char
       ELSE <<>>

\* HEURISTIC 2: found_suffix for the text after the ruby tag (lines 177-200)
found_suffix(trailing, base) ==
    LET okurigana == HIRAGANA_PATTERN(trailing)
        candidate == SubSeq(okurigana, 1,
                            IF Len(okurigana) < 4 THEN Len(okurigana) ELSE 4)
        \* for i in range(min(len(candidate), 4), 1, -1)
        lengths == {i \in 2..Len(candidate) :
                       SubSeq(candidate, 1, i) \in VALID_OKURIGANA}
        char == SubSeq(candidate, 1, 1)
    IN IF okurigana = <<>> THEN <<>>
       ELSE IF lengths # {} THEN SubSeq(candidate, 1, SetMax(lengths))
       ELSE IF char \in VALID_OKURIGANA /\ char \notin PARTICLES THEN char
       ELSE IF /\ char = <<12358>>
               /\ base # <<>>
               /\ base[Len(base)] \in {12371, 12381, 12424, 12429}
            THEN char
       ELSE <<>>

(***************************************************************************)
(* SpecVocab: one call of extract_words_from_html                          *)
(***************************************************************************)

MaxNodes == 3

\* the children of a ruby tag: a string, an <rt> tag, an <rp> tag
RubyString(text) == [tag |-> "", text |-> text]

RubyRt(text) == [tag |-> "rt", text |-> text]

RubyRp(text) == [tag |-> "rp", text |-> text]

RubyTag(children) == [kind |-> "ruby", children |-> children, text |-> <<>>]

\* <ruby>base<rt>reading</rt></ruby>
RubyNode(base, reading) == RubyTag(<<RubyString(base), RubyRt(reading)>>)

TextNode(text) == [kind |-> "text", children |-> <<>>, text |-> text]

\* <ruby>留<rt>と</rt></ruby>, <ruby>留<rt>る</rt></ruby>,
\* <ruby>守<rt>もり</rt></ruby>,
\* <ruby>行<rt>い</rt></ruby>, <ruby>い留<rt>と</rt></ruby>,
\* <ruby>々<rt>い</rt></ruby>, <ruby>行こ<rt>いこ</rt></ruby>,
\* <ruby>守</ruby> (no <rt>),
\* <ruby>東<rt>とう</rt>京<rt>きょう</rt></ruby>,
\* <ruby>留<rt>と</rt>守<rt></rt></ruby>,
\* <ruby>留<rp>(</rp><rt>と</rt><rp>)</rp></ruby>,
\* the strings " ", "った", "いた", "さ", "ーた", "う", and <br/>
VocabNodes ==
    { RubyNode(<<30041>>, <<12392>>),
      RubyNode(<<30041>>, <<12427>>),
      RubyNode(<<23432>>, <<12418, 12426>>),
      RubyNode(<<34892>>, <<12356>>),
      RubyNode(<<12356, 30041>>, <<12392>>),
      RubyNode(<<12293>>, <<12356>>),
      RubyNode(<<34892, 12371>>, <<12356, 12371>>),
      RubyTag(<<RubyString(<<23432>>)>>),
      RubyTag(<<RubyString(<<26481>>), RubyRt(<<12392, 12358>>),
                RubyString(<<20140>>), RubyRt(<<12365, 12423, 12358>>)>>),
      RubyTag(<<RubyString(<<30041>>), RubyRt(<<12392>>),
                RubyString(<<23432>>), RubyRt(<<>>)>>),
      RubyTag(<<RubyString(<<30041>>), RubyRp(<<40>>), RubyRt(<<12392>>),
                RubyRp(<<41>>)>>),
      TextNode(<<32>>),
      TextNode(<<12387, 12383>>),
      TextNode(<<12356, 12383>>),
      TextNode(<<12373>>),
      TextNode(<<12540, 12383>>),
      TextNode(<<12358>>),
      [kind |-> "tag", children |-> <<>>, text |-> <<>>] }

\* A parsed tree never holds two strings next to each other.
VocabDocuments ==
    { nodes \in UNION {[1..n -> VocabNodes] : n \in 0..MaxNodes} :
        \A i \in 1..(Len(nodes) - 1) :
            ~(nodes[i].kind = "text" /\ nodes[i + 1].kind = "text") }

\* soup.find_all('ruby'): the positions of the ruby tags in document order
RECURSIVE RubyPositions(_, _)
RubyPositions(nodes, from) ==
    IF from > Len(nodes) THEN <<>>
    ELSE (IF nodes[from].kind = "ruby" THEN <<from>> ELSE <<>>)
         \o RubyPositions(nodes, from + 1)

rubies == RubyPositions(ew_nodes, 1)

VocabInit ==
    /\ ew_html \in VocabDocuments
    /\ ew_nodes = ew_html
    /\ ew_k = 1
    /\ ew_processed = {}
    /\ ew_absorbed = {}
    /\ ew_words = EmptyDictionary
    /\ ew_base = <<>>
    /\ ew_reading = <<>>
    /\ ew_current = 0
    /\ ew_merged = <<<<>>, <<>>>>
    /\ ew_found = <<>>
    /\ ew_pc = "next"

VocabIdle ==
    /\ ew_html = <<>>
    /\ ew_nodes = <<>>
    /\ ew_k = 1
    /\ ew_processed = {}
    /\ ew_absorbed = {}
    /\ ew_words = EmptyDictionary
    /\ ew_base = <<>>
    /\ ew_reading = <<>>
    /\ ew_current = 0
    /\ ew_merged = <<<<>>, <<>>>>
    /\ ew_found = <<>>
    /\ ew_pc = "idle"

skips_ruby_repetition_kept(nodes, pos, processed_rubies) ==
    LET br == extract_ruby_base(nodes[pos])
    IN \/ pos \in processed_rubies
       \/ br[1] = <<>> \/ br[2] = <<>>

\* lines 146-155: the ruby tag is skipped
skips_ruby(nodes, pos, processed_rubies) ==
    LET br == extract_ruby_base(nodes[pos])
    IN \/ pos \in processed_rubies
       \/ br[1] = <<>> \/ br[2] = <<>>
       \/ StartsWith(br[1], REPETITION_MARK)

\* lines 146-155: continue; extract_ruby_base is called unless the tag is
\* in processed_rubies
VocabSkip ==
    /\ ew_pc = "next"
    /\ ew_k <= Len(rubies)
    /\ skips_ruby(ew_nodes, rubies[ew_k], ew_processed)
    /\ ew_nodes' = IF rubies[ew_k] \in ew_processed THEN ew_nodes
                   ELSE after_extract(ew_nodes, rubies[ew_k])
    /\ ew_k' = ew_k + 1
    /\ UNCHANGED <<ew_html, ew_processed, ew_absorbed, ew_words, ew_base,
                   ew_reading, ew_current, ew_merged, ew_found, ew_pc>>

\* lines 149-160: base, reading = extract_ruby_base(ruby);
\* processed_rubies.add(id(ruby)); current_ruby = ruby
VocabStart ==
    /\ ew_pc = "next"
    /\ ew_k <= Len(rubies)
    /\ ~skips_ruby(ew_nodes, rubies[ew_k], ew_processed)
    /\ ew_base' = extract_ruby_base(ew_nodes[rubies[ew_k]])[1]
    /\ ew_reading' = extract_ruby_base(ew_nodes[rubies[ew_k]])[2]
    /\ ew_nodes' = after_extract(ew_nodes, rubies[ew_k])
    /\ ew_processed' = ew_processed \cup {rubies[ew_k]}
    /\ ew_current' = rubies[ew_k]
    /\ ew_found' = <<>>
    /\ ew_pc' = "merge"
    /\ UNCHANGED <<ew_html, ew_k, ew_absorbed, ew_words, ew_merged>>

\* if is_all_kanji(base) and is_all_kanji(next_base)
merges_with_next(nodes, current_ruby, base) ==
    LET next_ruby == get_next_sibling_ruby(nodes, current_ruby)
    IN /\ next_ruby # 0
       /\ is_all_kanji(base)
       /\ is_all_kanji(extract_ruby_base(nodes[next_ruby])[1])

\* HEURISTIC 1, one iteration that merges (lines 162-172)
VocabMergeAbsorb ==
    /\ ew_pc = "merge"
    /\ merges_with_next(ew_nodes, ew_current, ew_base)
    /\ LET next_ruby == get_next_sibling_ruby(ew_nodes, ew_current)
           nb == extract_ruby_base(ew_nodes[next_ruby])
       IN /\ ew_base' = ew_base \o nb[1]
          /\ ew_reading' = ew_reading \o nb[2]
          /\ ew_nodes' = after_extract(ew_nodes, next_ruby)
          /\ ew_processed' = ew_processed \cup {next_ruby}
          /\ ew_absorbed' = ew_absorbed \cup {next_ruby}
          /\ ew_current' = next_ruby
    /\ UNCHANGED <<ew_html, ew_k, ew_words, ew_merged, ew_found, ew_pc>>

\* HEURISTIC 1, the iteration that breaks (lines 163-166, 173-174); when
\* there is a next ruby tag, extract_ruby_base has been called on it
VocabMergeStop ==
    /\ ew_pc = "merge"
    /\ ~merges_with_next(ew_nodes, ew_current, ew_base)
    /\ ew_nodes' = after_extract(ew_nodes,
                                 get_next_sibling_ruby(ew_nodes, ew_current))
    /\ ew_merged' = <<ew_base, ew_reading>>
    /\ ew_pc' = "okurigana"
    /\ UNCHANGED <<ew_html, ew_k, ew_processed, ew_absorbed, ew_words,
                   ew_base, ew_reading, ew_current, ew_found>>

\* HEURISTIC 2 (lines 177-204)
VocabOkurigana ==
    /\ ew_pc = "okurigana"
    /\ LET suffix == found_suffix(get_trailing_text(ew_nodes, ew_current),
                                  ew_base)
       IN /\ ew_found' = suffix
          /\ ew_base' = ew_base \o suffix
          /\ ew_reading' = ew_reading \o suffix
    /\ ew_pc' = "store"
    /\ UNCHANGED <<ew_html, ew_nodes, ew_k, ew_processed, ew_absorbed, ew_words,
                   ew_current, ew_merged>>

store_word_overwrite(words, base, reading) ==
    IF base # reading
    THEN [w \in DOMAIN words \cup {base} |->
             IF w = base THEN reading ELSE words[w]]
    ELSE words

\* if base != reading: if base not in words: words[base] = WordEntry(...)
store_word(words, base, reading) ==
    IF base # reading /\ base \notin DOMAIN words
    THEN [w \in DOMAIN words \cup {base} |->
             IF w = base THEN reading ELSE words[w]]
    ELSE words

\* lines 206-208: if base != reading: if base not in words: words[base] = ...
VocabStore ==
    /\ ew_pc = "store"
    /\ ew_words' = store_word(ew_words, ew_base, ew_reading)
    /\ ew_k' = ew_k + 1
    /\ ew_pc' = "next"
    /\ UNCHANGED <<ew_html, ew_nodes, ew_processed, ew_absorbed, ew_base, ew_reading,
                   ew_current, ew_merged, ew_found>>

\* return words
VocabReturn ==
    /\ ew_pc = "next"
    /\ ew_k > Len(rubies)
    /\ ew_pc' = "done"
    /\ UNCHANGED <<ew_html, ew_nodes, ew_k, ew_processed, ew_absorbed, ew_words,
                   ew_base, ew_reading, ew_current, ew_merged, ew_found>>

VocabNext ==
    \/ VocabSkip
    \/ VocabStart
    \/ VocabMergeAbsorb
    \/ VocabMergeStop
    \/ VocabOkurigana
    \/ VocabStore
    \/ VocabReturn

(***************************************************************************)
(* Claims about extract_words_from_html (SpecVocab)                        *)
(***************************************************************************)

\* The first sibling after pos that is not a white-space-only string (0: none).
NextNonBlank(nodes, pos) ==
    LET later == {q \in (pos + 1)..Len(nodes) :
                     ~(nodes[q].kind = "text"
                       /\ \A c \in 1..Len(nodes[q].text) : IsSpace(nodes[q].text[c]))}
    IN IF later = {} THEN 0 ELSE SetMin(later)

\* The ruby tags the claim has merged into the tag at pos: the following
\* siblings, white-space strings ignored, as long as they are ruby tags with
\* an all-kanji base.
RECURSIVE CompoundRun(_, _)
CompoundRun(nodes, pos) ==
    LET q == NextNonBlank(nodes, pos)
    IN IF q # 0 /\ nodes[q].kind = "ruby"
          /\ is_all_kanji(extract_ruby_base(nodes[q])[1])
       THEN <<q>> \o CompoundRun(nodes, q)
       ELSE <<>>

RECURSIVE ConcatBases(_, _, _)
ConcatBases(nodes, run, part) ==
    IF run = <<>> THEN <<>>
    ELSE extract_ruby_base(nodes[Head(run)])[part]
         \o ConcatBases(nodes, Tail(run), part)

\* The ruby tags of the document that the claim lets start an entry: base
\* and reading are not empty and the base does not begin with 々.
StartsEntry(nodes, pos) ==
    LET br == extract_ruby_base(nodes[pos])
    IN /\ br[1] # <<>> /\ br[2] # <<>>
       /\ ~StartsWith(br[1], REPETITION_MARK)

\* C9: a ruby tag with an all-kanji base that is followed, with nothing but
\* white-space strings in between, by ruby tags with all-kanji bases gives
\* one entry: the tag is taken up unless an earlier tag absorbed it, and when
\* its compound merge ends, base and reading are the concatenations, in
\* document order, of the bases and readings of the tag and of every such
\* following tag, up to the first sibling that is other text, another
\* element or a ruby tag whose base is not all kanji; the merged tags are
\* marked processed, and a merged tag never starts an entry of its own.
\* Bases and readings are those of the document as given.
C9_CompoundMerge ==
    /\ ew_pc = "okurigana"
           /\ is_all_kanji(extract_ruby_base(ew_html[rubies[ew_k]])[1]) =>
          LET head == rubies[ew_k]
              run == CompoundRun(ew_html, head)
          IN /\ ew_base = ConcatBases(ew_html, <<head>> \o run, 1)
             /\ ew_reading = ConcatBases(ew_html, <<head>> \o run, 2)
             /\ \A n \in 1..Len(run) : run[n] \in ew_processed
             /\ ew_current = IF run = <<>> THEN head ELSE run[Len(run)]
    /\ ew_pc \in {"merge", "okurigana", "store"} => rubies[ew_k] \notin ew_absorbed
    /\ ew_pc \in {"next", "done"} =>
          \A j \in 1..Len(rubies) :
             /\ j < ew_k
             /\ is_all_kanji(extract_ruby_base(ew_html[rubies[j]])[1])
             /\ StartsEntry(ew_html, rubies[j])
             /\ CompoundRun(ew_html, rubies[j]) # <<>>
             => rubies[j] \in ew_processed

\* The ending the claim appends for the text after the ruby tag: the longest
\* leading piece of its first four characters that is in the ending table,
\* when the text begins with hiragana (U+3040..U+309F).
ClaimedSuffix(text, allowed_single) ==
    LET first4 == SubSeq(text, 1, IF Len(text) < 4 THEN Len(text) ELSE 4)
        lengths == {k \in 1..Len(first4) :
                       /\ SubSeq(first4, 1, k) \in VALID_OKURIGANA
                       /\ k = 1 => SubSeq(first4, 1, 1) \in allowed_single}
    IN IF text # <<>> /\ 12352 <= text[1] /\ text[1] <= 12447 /\ lengths # {}
       THEN SubSeq(first4, 1, SetMax(lengths))
       ELSE <<>>

AnySingle == VALID_OKURIGANA

NotParticle == VALID_OKURIGANA \ PARTICLES

\* C10 as stated: after the okurigana step, word and reading are the merged
\* base and reading followed by the longest piece (4, 3, 2, then 1
\* characters) of the following text that is in the ending table.
C10_LongestTableMatch ==
    ew_pc = "store" =>
        LET s == ClaimedSuffix(get_trailing_text(ew_nodes, ew_current), AnySingle)
        IN ew_base = ew_merged[1] \o s /\ ew_reading = ew_merged[2] \o s

\* C10 amended: as stated, except that a piece of one character is appended
\* only if it is not a particle of PARTICLES (さ, で and ね are in the ending
\* table and never appended on their own).
C10_LongestMatchAmended ==
    ew_pc = "store" =>
        LET s == ClaimedSuffix(get_trailing_text(ew_nodes, ew_current), NotParticle)
        IN ew_base = ew_merged[1] \o s /\ ew_reading = ew_merged[2] \o s

\* C10 witness: 行/い followed by the text "った" gave the entry 行った/いった.
C10_Witness ==
    /\ ew_pc = "done"
    /\ ew_html = <<RubyNode(<<34892>>, <<12356>>), TextNode(<<12387, 12383>>)>>
    /\ DOMAIN ew_words = {<<34892, 12387, 12383>>}
    /\ ew_words[<<34892, 12387, 12383>>] = <<12356, 12387, 12383>>

\* The ruby tags whose base text begins with the repetition mark.
RepetitionRubies ==
    {p \in 1..Len(ew_html) :
        /\ ew_html[p].kind = "ruby"
        /\ StartsWith(extract_ruby_base(ew_html[p])[1], REPETITION_MARK)}

\* C21 as stated: a ruby tag whose base begins with 々 is skipped: it starts
\* no entry and its base and reading are taken into no entry.
C21_RepetitionSkipped ==
    \A p \in RepetitionRubies : p \notin ew_processed

\* C21 amended: a ruby tag whose base begins with 々 never starts an entry;
\* its base and reading are taken into an entry only by the compound merge
\* of the all-kanji ruby tag before it.
C21_RepetitionNeverStarts ==
    /\ ew_pc \in {"merge", "okurigana", "store"} =>
          rubies[ew_k] \notin RepetitionRubies
    /\ \A p \in RepetitionRubies :
          p \in ew_processed =>
             /\ p \in ew_absorbed
             /\ is_all_kanji(extract_ruby_base(ew_html[p])[1])
             /\ \E q \in 1..(p - 1) :
                   /\ ew_html[q].kind = "ruby"
                   /\ is_all_kanji(extract_ruby_base(ew_html[q])[1])
                   /\ get_next_sibling_ruby(ew_html, q) = p

\* C21 witness: the call has returned for a document that begins with a
\* 々 ruby tag, which was skipped, and has a later one that was merged into
\* the ruby tag before it.
C21_Witness ==
    /\ ew_pc = "done"
    /\ 1 \in RepetitionRubies
    /\ 1 \notin ew_processed
    /\ \E p \in RepetitionRubies : p \in ew_absorbed

\* Bases with and without a final こ, そ, よ or ろ: 行, 行こ, 行そ, 行よ, 行ろ, "".
VolitionalProbes ==
    {<<34892>>, <<34892, 12371>>, <<34892, 12381>>, <<34892, 12424>>,
     <<34892, 12429>>, <<>>}

\* The text after a ruby tag begins with a lone う: the hiragana run begins
\* with う and none of its first 2 to 4 characters is a listed ending.
LoneU(trailing) ==
    LET okurigana == HIRAGANA_PATTERN(trailing)
    IN /\ okurigana # <<>>
       /\ okurigana[1] = 12358
       /\ \A i \in 2..4 :
             i <= Len(okurigana) => SubSeq(okurigana, 1, i) \notin VALID_OKURIGANA

\* C29: the okurigana found after a ruby tag is the same for every base,
\* whatever its last character; a lone trailing う is always captured.
C29_LoneUAnyBase ==
    ew_pc = "store" =>
        LET trailing == get_trailing_text(ew_nodes, ew_current)
        IN /\ \A base \in VolitionalProbes \cup {ew_merged[1]} :
                 found_suffix(trailing, base) = ew_found
           /\ LoneU(trailing) => ew_found = <<12358>>

\* C29 witness: a lone う after a ruby tag whose base does not end in こ,
\* そ, よ or ろ has been captured, and the entry is about to be stored.
C29_Witness ==
    /\ ew_pc = "store"
    /\ LoneU(get_trailing_text(ew_nodes, ew_current))
    /\ ew_merged[1] = <<30041>>
    /\ ew_found = <<12358>>
    /\ ew_base = <<30041, 12358>>

\* C17: within one document an entry of words, once made, is never replaced
\* or changed: a later occurrence of the same word, whatever its reading,
\* leaves the entry of the first occurrence.
C17_FirstOccurrenceKept ==
    [][\A w \in DOMAIN ew_words :
          w \in DOMAIN ew_words' /\ ew_words'[w] = ew_words[w]]_vocabVars

\* C17 witness: a later occurrence of a word with another reading has gone
\* through the store step and the entry still has the first reading.
C17_Witness ==
    /\ ew_pc = "next"
    /\ ew_base # ew_reading
    /\ ew_base \in DOMAIN ew_words
    /\ ew_words[ew_base] # ew_reading

(***************************************************************************)
(* utils/fix-ruby-newlines.py                                              *)
(***************************************************************************)

\* [一-龯㐀-䶿]
FixKanji(c) == (19968 <= c /\ c <= 40879) \/ (13312 <= c /\ c <= 19903)

\* KANJI_PATTERN.match(s): ^[kanji]{1,3}$
FIX_KANJI_PATTERN(s) ==
    /\ 1 <= Len(s) /\ Len(s) <= 3
    /\ \A i \in 1..Len(s) : FixKanji(s[i])

\* KANJI_START.match(s)
KANJI_START(s) == s # <<>> /\ FixKanji(s[1])

\* KANJI_END.search(s)
KANJI_END(s) == s # <<>> /\ FixKanji(s[Len(s)])

\* HIRAGANA_START.match(s): ^[U+3040-U+309F]
HIRAGANA_START(s) == s # <<>> /\ 12352 <= s[1] /\ s[1] <= 12447

\* ('。', '、', '」', '』', '）', ')', '！', '？', '…', '―')
FixPunctuation ==
    {<<12290>>, <<12289>>, <<12301>>, <<12303>>, <<65289>>, <<41>>,
     <<65281>>, <<65311>>, <<8230>>, <<8213>>}

\* ('。', '」', '』', '）', ')', '！', '？')
FixSentenceEnd ==
    {<<12290>>, <<12301>>, <<12303>>, <<65289>>, <<41>>, <<65281>>, <<65311>>}

\* ('<', '>', '＜', '＞')
FixMarkers == {<<60>>, <<62>>, <<65308>>, <<65310>>}

\* s.endswith(tuple) / s.startswith(tuple)
EndsWithAny(s, suffixes) == \E p \in suffixes : EndsWith(s, p)

StartsWithAny(s, prefixes) == \E p \in prefixes : StartsWith(s, p)

should_merge_with_next_blank_untested(current_line, next_line) ==
    LET current == Strip(current_line)
        next_l == Strip(next_line)
    IN \/ /\ FIX_KANJI_PATTERN(current)
          /\ HIRAGANA_START(next_l) \/ FIX_KANJI_PATTERN(next_l)
       \/ /\ FIX_KANJI_PATTERN(next_l)
          /\ ~EndsWithAny(current, FixPunctuation)
          /\ ~StartsWithAny(next_l, FixMarkers)
       \/ /\ KANJI_END(current)
          /\ HIRAGANA_START(next_l)
          /\ ~StartsWithAny(next_l, FixMarkers \cup {<<62, 62>>})
       \/ /\ ~EndsWithAny(current, FixSentenceEnd)
          /\ FIX_KANJI_PATTERN(next_l)
          /\ ~StartsWithAny(next_l, FixMarkers)
       \/ /\ EndsWith(current, <<12289>>)
          /\ KANJI_START(next_l)
          /\ ~StartsWithAny(next_l, FixMarkers)

should_merge_with_next_after_comma(current_line, next_line) ==
    LET current == Strip(current_line)
        next_l == Strip(next_line)
    IN IF current = <<>> \/ next_l = <<>> THEN FALSE
       ELSE \/ /\ FIX_KANJI_PATTERN(current)
               /\ HIRAGANA_START(next_l) \/ FIX_KANJI_PATTERN(next_l)
            \/ /\ FIX_KANJI_PATTERN(next_l)
               /\ ~EndsWithAny(current, FixPunctuation)
               /\ ~StartsWithAny(next_l, FixMarkers)
            \/ /\ KANJI_END(current)
               /\ HIRAGANA_START(next_l)
               /\ ~StartsWithAny(next_l, FixMarkers \cup {<<62, 62>>})
            \/ /\ ~EndsWithAny(current, FixSentenceEnd)
               /\ FIX_KANJI_PATTERN(next_l)
               /\ ~StartsWithAny(next_l, FixMarkers)
            \/ EndsWith(current, <<12289>>)

should_merge_with_next_no_comma_rule(current_line, next_line) ==
    LET current == Strip(current_line)
        next_l == Strip(next_line)
    IN IF current = <<>> \/ next_l = <<>> THEN FALSE
       ELSE \/ /\ FIX_KANJI_PATTERN(current)
               /\ HIRAGANA_START(next_l) \/ FIX_KANJI_PATTERN(next_l)
            \/ /\ FIX_KANJI_PATTERN(next_l)
               /\ ~EndsWithAny(current, FixPunctuation)
               /\ ~StartsWithAny(next_l, FixMarkers)
            \/ /\ KANJI_END(current)
               /\ HIRAGANA_START(next_l)
               /\ ~StartsWithAny(next_l, FixMarkers \cup {<<62, 62>>})
            \/ /\ ~EndsWithAny(current, FixSentenceEnd)
               /\ FIX_KANJI_PATTERN(next_l)
               /\ ~StartsWithAny(next_l, FixMarkers)

should_merge_with_next(current_line, next_line) ==
    LET current == Strip(current_line)
        next_l == Strip(next_line)
    IN IF current = <<>> \/ next_l = <<>> THEN FALSE
       ELSE \/ /\ FIX_KANJI_PATTERN(current)
               /\ HIRAGANA_START(next_l) \/ FIX_KANJI_PATTERN(next_l)
            \/ /\ FIX_KANJI_PATTERN(next_l)
               /\ ~EndsWithAny(current, FixPunctuation)
               /\ ~StartsWithAny(next_l, FixMarkers)
            \/ /\ KANJI_END(current)
               /\ HIRAGANA_START(next_l)
               /\ ~StartsWithAny(next_l, FixMarkers \cup {<<62, 62>>})
            \/ /\ ~EndsWithAny(current, FixSentenceEnd)
               /\ FIX_KANJI_PATTERN(next_l)
               /\ ~StartsWithAny(next_l, FixMarkers)
            \/ /\ EndsWith(current, <<12289>>)
               /\ KANJI_START(next_l)
               /\ ~StartsWithAny(next_l, FixMarkers)

should_merge_with_prev_any_end(prev_line, current_line) ==
    LET prev == Strip(prev_line)
        current == Strip(current_line)
    IN IF prev = <<>> \/ current = <<>> THEN FALSE
       ELSE /\ FIX_KANJI_PATTERN(current)
            /\ ~StartsWithAny(current, FixMarkers)

should_merge_with_prev(prev_line, current_line) ==
    LET prev == Strip(prev_line)
        current == Strip(current_line)
    IN IF prev = <<>> \/ current = <<>> THEN FALSE
       ELSE /\ FIX_KANJI_PATTERN(current)
            /\ prev # <<>> /\ ~EndsWithAny(prev, FixPunctuation)
            /\ ~StartsWithAny(current, FixMarkers)

max_passes == 5

\* content.split('\n')
RECURSIVE SplitLines(_, _)
SplitLines(content, line) ==
    IF content = <<>> THEN <<line>>
    ELSE IF Head(content) = 10
         THEN <<line>> \o SplitLines(Tail(content), <<>>)
         ELSE SplitLines(Tail(content), Append(line, Head(content)))

merge_forward_once_unflagged(lines, i, current_line, changed) ==
    IF i + 1 <= Len(lines) /\ should_merge_with_next(current_line, lines[i + 1])
    THEN [line |-> RStrip(current_line) \o Strip(lines[i + 1]), i |-> i + 1,
          changed |-> FALSE]
    ELSE [line |-> current_line, i |-> i, changed |-> FALSE]

merge_forward_once(lines, i, current_line, changed) ==
    IF i + 1 <= Len(lines) /\ should_merge_with_next(current_line, lines[i + 1])
    THEN [line |-> RStrip(current_line) \o Strip(lines[i + 1]), i |-> i + 1,
          changed |-> TRUE]
    ELSE [line |-> current_line, i |-> i, changed |-> changed]

\* while i + 1 < len(lines) and should_merge_with_next(current_line,
\* lines[i + 1]): ... (i counted from 1): [line, i, changed] when it ends
RECURSIVE merge_forward(_, _, _, _)
merge_forward(lines, i, current_line, changed) ==
    IF i + 1 <= Len(lines) /\ should_merge_with_next(current_line, lines[i + 1])
    THEN merge_forward(lines, i + 1,
                       RStrip(current_line) \o Strip(lines[i + 1]), TRUE)
    ELSE [line |-> current_line, i |-> i, changed |-> changed]

\* while i < len(lines): ... (one pass): [lines, changed, prev_fired]
RECURSIVE fix_pass(_, _, _, _, _)
fix_pass(lines, i, result, changed, prev_fired) ==
    IF i > Len(lines)
    THEN [lines |-> result, changed |-> changed, prev_fired |-> prev_fired]
    ELSE IF /\ i > 1
            /\ result # <<>>
            /\ should_merge_with_prev(result[Len(result)], lines[i])
         THEN fix_pass(lines, i + 1,
                       [result EXCEPT ![Len(result)] = @ \o Strip(lines[i])],
                       TRUE, TRUE)
         ELSE LET m == merge_forward(lines, i, lines[i], changed)
              IN fix_pass(lines, m.i + 1, Append(result, m.line), m.changed,
                          prev_fired)

(***************************************************************************)
(* SpecRepair: fix_ruby_newlines, called on a text and then on its output  *)
(***************************************************************************)

MaxLines == 3

\* "", " ", "留", "い", "留い", "い留", "い、", "い。", "<い", " 留 "
RepairLines ==
    { <<>>, <<32>>, <<30041>>, <<12356>>, <<30041, 12356>>, <<12356, 30041>>,
      <<12356, 12289>>, <<12356, 12290>>, <<60, 12356>>, <<32, 30041, 32>> }

RepairContents ==
    { JoinWith(ls, 10) : ls \in UNION {[1..n -> RepairLines] : n \in 1..MaxLines} }

RepairInit ==
    /\ fr_input \in RepairContents
    /\ fr_content = fr_input
    /\ fr_lines = <<>>
    /\ fr_passes = 0
    /\ fr_changed = FALSE
    /\ fr_prev_fired = FALSE
    /\ fr_out = <<>>
    /\ fr_first = <<>>
    /\ fr_run = 1
    /\ fr_pc = "split"

RepairIdle ==
    /\ fr_input = <<>>
    /\ fr_content = <<>>
    /\ fr_lines = <<>>
    /\ fr_passes = 0
    /\ fr_changed = FALSE
    /\ fr_prev_fired = FALSE
    /\ fr_out = <<>>
    /\ fr_first = <<>>
    /\ fr_run = 1
    /\ fr_pc = "idle"

\* lines = content.split('\n')
FixSplit ==
    /\ fr_pc = "split"
    /\ fr_lines' = SplitLines(fr_content, <<>>)
    /\ fr_passes' = 0
    /\ fr_changed' = FALSE
    /\ fr_pc' = "pass"
    /\ UNCHANGED <<fr_input, fr_content, fr_prev_fired, fr_out, fr_first, fr_run>>

\* one iteration of: for _ in range(max_passes)
FixPass ==
    /\ fr_pc = "pass"
    /\ fr_passes < max_passes
    /\ LET p == fix_pass(fr_lines, 1, <<>>, FALSE, FALSE)
       IN /\ fr_lines' = p.lines
          /\ fr_changed' = p.changed
          /\ fr_prev_fired' = (fr_prev_fired \/ p.prev_fired)
          /\ fr_pc' = IF ~p.changed \/ fr_passes + 1 = max_passes
                      THEN "join" ELSE "pass"
    /\ fr_passes' = fr_passes + 1
    /\ UNCHANGED <<fr_input, fr_content, fr_out, fr_first, fr_run>>

\* return '\n'.join(lines)
FixReturn ==
    /\ fr_pc = "join"
    /\ fr_out' = JoinWith(fr_lines, 10)
    /\ fr_pc' = "done"
    /\ UNCHANGED <<fr_input, fr_content, fr_lines, fr_passes, fr_changed,
                   fr_prev_fired, fr_first, fr_run>>

\* fix_ruby_newlines is called on what it returned
FixAgain ==
    /\ fr_pc = "done"
    /\ fr_run = 1
    /\ fr_first' = fr_out
    /\ fr_content' = fr_out
    /\ fr_run' = 2
    /\ fr_pc' = "split"
    /\ UNCHANGED <<fr_input, fr_lines, fr_passes, fr_changed, fr_prev_fired,
                   fr_out>>

\* C5: fix_ruby_newlines applied to its own output returns that output.
C5_Idempotent ==
    (fr_pc = "done" /\ fr_run = 2) => fr_out = fr_first

\* C5 witness: the first call merged lines (its output differs from its
\* input) and the second call has returned.
C5_Witness ==
    /\ fr_pc = "done"
    /\ fr_run = 2
    /\ fr_first # fr_input
    /\ Len(SplitLines(fr_input, <<>>)) = 3

\* The lines the current call of fix_ruby_newlines was given.
RepairInputLines == SplitLines(fr_content, <<>>)

\* C25: every pass after the first merges nothing, so a call makes at most
\* two passes and never uses up max_passes.
C25_FirstPassFixedPoint ==
    /\ fr_passes <= 2
    /\ fr_passes = 2 => ~fr_changed
    /\ fr_pc = "pass" /\ fr_passes >= 1 =>
           fix_pass(fr_lines, 1, <<>>, FALSE, FALSE).lines = fr_lines

\* C25 witness: a call was given a text whose first line is merged twice in
\* a row (留 + い留 + い), made a second pass that merged nothing and returned.
C25_Witness ==
    /\ fr_pc = "done"
    /\ fr_run = 1
    /\ fr_passes = 2
    /\ RepairInputLines = <<<<30041>>, <<12356, 30041>>, <<12356>>>>
    /\ fr_lines = <<<<30041, 12356, 30041, 12356>>>>

\* One pass of the loop without the backward step.
RECURSIVE forward_only_pass(_, _, _)
forward_only_pass(lines, i, result) ==
    IF i > Len(lines) THEN result
    ELSE LET m == merge_forward(lines, i, lines[i], FALSE)
         IN forward_only_pass(lines, m.i + 1, Append(result, m.line))

\* C26: the backward merge never fires, and a pass without the backward
\* step gives the lines the pass of the code gives.
C26_BackwardNeverFires ==
    /\ ~fr_prev_fired
    /\ fr_pc = "pass" =>
          fix_pass(fr_lines, 1, <<>>, FALSE, FALSE).lines
             = forward_only_pass(fr_lines, 1, <<>>)

\* C26 witness: a call has returned for a text in which a line of one kanji
\* follows a line that ends in 。 (the backward test is evaluated on a line
\* of 1 to 3 kanji) and in which the forward merge has joined two lines.
C26_Witness ==
    /\ fr_pc = "done"
    /\ fr_run = 1
    /\ RepairInputLines = <<<<12356, 12290>>, <<30041>>, <<12356>>>>
    /\ fr_lines = <<<<12356, 12290>>, <<30041, 12356>>>>

\* The characters of a text that are not white space, in order.
NonWhitespace(text) == SelectSeq(text, LAMBDA c : ~IsSpace(c))

\* The lines from..to joined by removing the line breaks between them and
\* the white space next to those breaks; with keep_tail the white space at
\* the end of the last line stays, without it it is removed as well.
RECURSIVE JoinedGroup(_, _, _, _)
JoinedGroup(lines, from, to, keep_tail) ==
    IF from = to THEN lines[from]
    ELSE RStrip(JoinedGroup(lines, from, to - 1, keep_tail))
         \o (IF keep_tail THEN LStrip(lines[to]) ELSE Strip(lines[to]))

\* The groups of consecutive lines that a set of kept line breaks makes of
\* n lines (cuts: the lines after which the break is kept).
GroupsOf(n, cuts) ==
    LET m == Cardinality(cuts)
        c == CHOOSE f \in [1..m -> cuts] :
                 \A a, b \in 1..m : a < b => f[a] < f[b]
    IN [k \in 1..(m + 1) |->
           [from |-> IF k = 1 THEN 1 ELSE c[k - 1] + 1,
            to |-> IF k = m + 1 THEN n ELSE c[k]]]

\* The sets of kept line breaks that explain the output lines: every output
\* line is the join of its group, and no group of two or more lines holds a
\* blank line.
Groupings(lines, out, keep_tail) ==
    {cuts \in SUBSET (1..(Len(lines) - 1)) :
        /\ Cardinality(cuts) + 1 = Len(out)
        /\ LET g == GroupsOf(Len(lines), cuts)
           IN \A k \in 1..Len(out) :
                 /\ out[k] = JoinedGroup(lines, g[k].from, g[k].to, keep_tail)
                 /\ g[k].to > g[k].from =>
                       \A j \in g[k].from..g[k].to : Strip(lines[j]) # <<>>}

\* C27 as stated: the output is the input with some line breaks removed
\* together with the white space next to a removed break and nothing else;
\* the characters that are not white space are the same, there are no more
\* lines than before, and no blank line is joined to a neighbour.
C27_OnlyAdjacentWhitespace ==
    fr_pc = "done" =>
        /\ Groupings(RepairInputLines, fr_lines, TRUE) # {}
        /\ NonWhitespace(fr_out) = NonWhitespace(fr_content)
        /\ Len(fr_lines) <= Len(RepairInputLines)

\* C27 amended: as stated, except that the white space at the end of a line
\* that was joined to the line before it is removed as well.
C27_JoinedLinesTrimmed ==
    fr_pc = "done" =>
        /\ Groupings(RepairInputLines, fr_lines, FALSE) # {}
        /\ NonWhitespace(fr_out) = NonWhitespace(fr_content)
        /\ Len(fr_lines) <= Len(RepairInputLines)

\* C27 witness: い and " 留 " were joined to い留 next to a blank line, which
\* stayed a line of its own.
C27_Witness ==
    /\ fr_pc = "done"
    /\ fr_run = 1
    /\ RepairInputLines = <<<<12356>>, <<32, 30041, 32>>, <<32>>>>
    /\ fr_lines = <<<<12356, 30041>>, <<32>>>>

\* C28: a line whose trimmed text begins with <, >, ＜ or ＞ begins a line
\* of the output: the line break before it is never removed.
C28_MarkerLineStartsLine ==
    fr_pc = "done" =>
        /\ Groupings(RepairInputLines, fr_lines, FALSE) # {}
        /\ \A cuts \in Groupings(RepairInputLines, fr_lines, FALSE) :
              \A j \in 2..Len(RepairInputLines) :
                  StartsWithAny(Strip(RepairInputLines[j]), FixMarkers)
                     => (j - 1) \in cuts

\* C28 witness: the marker line <い follows a line that ends in 、 and is
\* followed by a kanji line; it took in the kanji line and still begins its
\* line.
C28_Witness ==
    /\ fr_pc = "done"
    /\ fr_run = 1
    /\ RepairInputLines = <<<<12356, 12289>>, <<60, 12356>>, <<30041>>>>
    /\ fr_lines = <<<<12356, 12289>>, <<60, 12356, 30041>>>>

(***************************************************************************)
(* furigana_helper.py: preserve_existing_ruby                              *)
(*                                                                         *)
(* The parsed markup is a sequence of nodes [name, text, kids]: a text     *)
(* node is named "#text" and carries its string; an element carries its    *)
(* children; an img carries its src attribute in text.                     *)
(***************************************************************************)

WText(t) == [name |-> "#text", text |-> t, kids |-> <<>>]

WTag(n, ks) == [name |-> n, text |-> <<>>, kids |-> ks]

WImg(src) == [name |-> "img", text |-> src, kids |-> <<>>]

\* ['nav', 'script', 'style', 'meta', 'link']
NonContentTags == {"nav", "script", "style", "meta", "link"}

\* for element in soup.find_all([...]): element.decompose()
RECURSIVE decompose(_)
decompose(nodes) ==
    IF nodes = <<>> THEN <<>>
    ELSE LET n == Head(nodes)
         IN (IF n.name \in NonContentTags THEN <<>>
             ELSE <<[n EXCEPT !.kids = decompose(n.kids)]>>)
            \o decompose(Tail(nodes))

\* str(n) for a non-negative integer
RECURSIVE Decimal(_)
Decimal(n) ==
    IF n < 10 THEN <<48 + n>> ELSE Decimal(n \div 10) \o <<48 + (n % 10)>>

\* s.split('/')[-1]
RECURSIVE LastSegment(_)
LastSegment(s) ==
    IF \E i \in 1..Len(s) : s[i] = 47
    THEN LastSegment(Tail(s))
    ELSE s

\* img_src.split('/')[-1] if img_src else f'image-{image_counter}'
img_filename(img_src, image_counter) ==
    IF img_src # <<>> THEN LastSegment(img_src)
    ELSE <<105, 109, 97, 103, 101, 45>> \o Decimal(image_counter)

\* f'\n[IMAGE:{img_filename}]\n'
placeholder(img_src, image_counter) ==
    <<10, 91, 73, 77, 65, 71, 69, 58>> \o img_filename(img_src, image_counter)
        \o <<93, 10>>

\* for img_tag in soup.find_all('img'): ... img_tag.replace_with(placeholder)
\* in document order: [nodes, image_counter]
RECURSIVE replace_images(_, _)
replace_images(nodes, image_counter) ==
    IF nodes = <<>> THEN [nodes |-> <<>>, image_counter |-> image_counter]
    ELSE LET n == Head(nodes)
         IN IF n.name = "img"
            THEN LET rest == replace_images(Tail(nodes), image_counter + 1)
                 IN [nodes |-> <<WText(placeholder(n.text, image_counter + 1))>>
                                   \o rest.nodes,
                     image_counter |-> rest.image_counter]
            ELSE LET inner == replace_images(n.kids, image_counter)
                     rest == replace_images(Tail(nodes), inner.image_counter)
                 IN [nodes |-> <<[n EXCEPT !.kids = inner.nodes]>> \o rest.nodes,
                     image_counter |-> rest.image_counter]

\* The characters of a tag name.
TagName(name) ==
    CASE name = "ruby" -> <<114, 117, 98, 121>>
      [] name = "rt" -> <<114, 116>>
      [] name = "rp" -> <<114, 112>>
      [] name = "br" -> <<98, 114>>
      [] name = "p" -> <<112>>
      [] name = "div" -> <<100, 105, 118>>
      [] name = "em" -> <<101, 109>>
      [] name = "nav" -> <<110, 97, 118>>

\* The output formatter for text inside str(tag): & < > become entities.
RECURSIVE EscapeText(_)
EscapeText(s) ==
    IF s = <<>> THEN <<>>
    ELSE (CASE Head(s) = 38 -> <<38, 97, 109, 112, 59>>
            [] Head(s) = 60 -> <<38, 108, 116, 59>>
            [] Head(s) = 62 -> <<38, 103, 116, 59>>
            [] OTHER -> <<Head(s)>>)
         \o EscapeText(Tail(s))

\* str(child) for the nodes of a tree whose images have been replaced
RECURSIVE TagStr(_)
TagStr(node) ==
    LET RECURSIVE KidsStr(_)
        KidsStr(ks) == IF ks = <<>> THEN <<>>
                       ELSE TagStr(Head(ks)) \o KidsStr(Tail(ks))
    IN IF node.name = "#text" THEN EscapeText(node.text)
       ELSE IF node.name = "br" THEN <<60, 98, 114, 47, 62>>
       ELSE <<60>> \o TagName(node.name) \o <<62>> \o KidsStr(node.kids)
            \o <<60, 47>> \o TagName(node.name) \o <<62>>

NotMeCabSpace(c) == c \notin MeCabSpace

\* The strings generator.add_furigana(text, filter_n3_plus) may return.  For
\* a text without kanji every token line appends its surface, whatever the
\* segmentation and the readings, so the tokens need not be enumerated.
add_furigana(text, name_dictionary, filter_n3_plus, preserve_long_vowel) ==
    IF text = <<>> \/ Strip(text) = <<>> THEN {text}
    ELSE IF ~has_kanji(text) THEN {SelectSeq(text, NotMeCabSpace)}
    ELSE { add_furigana_loop(parsed, name_dictionary, filter_n3_plus,
                             preserve_long_vowel) : parsed \in MeCabParse(text) }

\* ['p', 'div', 'span', 'h1', ..., 'h6'] and the ones wrapped in newlines
ContainerTags == {"p", "div", "span", "h1", "h2", "h3", "h4", "h5", "h6"}

BlockTags == {"p", "h1", "h2", "h3", "h4", "h5", "h6"}

\* The calls extract_text_with_ruby makes to generator.add_furigana, in
\* order: the text passed and the place of its text node in the tree (the
\* child indices from the root down); path leads to children[k].
RECURSIVE annotator_calls(_, _, _)
annotator_calls(children, k, path) ==
    IF k > Len(children) THEN <<>>
    ELSE LET child == children[k]
             here == Append(path, k)
         IN (IF child.name = "#text"
             THEN IF Strip(child.text) # <<>>
                  THEN <<[text |-> Strip(child.text), path |-> here]>>
                  ELSE <<>>
             ELSE IF child.name \in {"ruby", "rt", "br"} THEN <<>>
             ELSE annotator_calls(child.kids, 1, here))
            \o annotator_calls(children, k + 1, path)

\* extract_text_with_ruby(element) over element.children; tagger[text] is
\* what generator.add_furigana returns for text
RECURSIVE extract_text_with_ruby(_, _)
extract_text_with_ruby(children, tagger) ==
    IF children = <<>> THEN <<>>
    ELSE LET child == Head(children)
             content == extract_text_with_ruby(child.kids, tagger)
         IN (IF child.name = "#text"
             THEN IF Strip(child.text) # <<>> THEN tagger[Strip(child.text)]
                  ELSE <<>>
             ELSE IF child.name = "ruby" THEN TagStr(child)
             ELSE IF child.name = "rt" THEN <<>>
             ELSE IF child.name \in ContainerTags
                  THEN IF Strip(content) # <<>>
                       THEN IF child.name \in BlockTags
                            THEN <<10>> \o content \o <<10>>
                            ELSE content
                       ELSE <<>>
             ELSE IF child.name = "br" THEN <<10>>
             ELSE IF Strip(content) # <<>> THEN content ELSE <<>>)
            \o extract_text_with_ruby(Tail(children), tagger)

\* re.sub(r'\n{3,}', '\n\n', text): of every run of newlines the first two
\* stay
collapse_newlines(text) ==
    LET at == [i \in 1..Len(text) |-> i]
        stays(i) == ~(/\ text[i] = 10
                      /\ i >= 3
                      /\ text[i - 1] = 10
                      /\ text[i - 2] = 10)
        kept == SelectSeq(at, stays)
    IN [j \in 1..Len(kept) |-> text[kept[j]]]

(***************************************************************************)
(* SpecWalk: one call of preserve_existing_ruby on a parsed document       *)
(***************************************************************************)

MaxWalkNodes == 2

\* <ruby>留<rt>と</rt></ruby>
WalkRubyPlain == WTag("ruby", <<WText(<<30041>>), WTag("rt", <<WText(<<12392>>)>>)>>)

\* a ruby whose base is laid out over several lines: 留, three newlines, 守
WalkRubyLines ==
    WTag("ruby", <<WText(<<30041, 10, 10, 10, 23432>>),
                   WTag("rt", <<WText(<<12392, 12418, 12426>>)>>)>>)

\* a ruby holding an image beside its base
WalkRubyImage ==
    WTag("ruby", <<WImg(<<>>), WText(<<34892>>),
                   WTag("rt", <<WText(<<12356>>)>>)>>)

WalkLeaves ==
    { WText(<<30041>>), WText(<<32, 12356, 32>>), WText(<<32>>),
      WalkRubyPlain, WalkRubyLines, WalkRubyImage,
      WTag("br", <<>>), WImg(<<>>), WImg(<<105, 47, 97>>) }

WalkNodes ==
    WalkLeaves \cup
    { WTag("p", <<WText(<<30041>>), WalkRubyPlain>>),
      WTag("p", <<WalkRubyLines>>),
      WTag("p", <<WText(<<32>>)>>),
      WTag("div", <<WText(<<12356>>), WImg(<<>>)>>),
      WTag("em", <<WText(<<34892>>)>>),
      WTag("nav", <<WText(<<30041>>)>>) }

\* An HTML parser never yields two adjacent text nodes.
WalkDocuments ==
    { d \in UNION {[1..n -> WalkNodes] : n \in 1..MaxWalkNodes} :
        \A i \in 1..(Len(d) - 1) :
            ~(d[i].name = "#text" /\ d[i + 1].name = "#text") }

WalkGenerators ==
    [name_dictionary : AnnotDictionaries, preserve_long_vowel : BOOLEAN]

WalkInit ==
    /\ pw_html \in WalkDocuments
    /\ pw_soup = pw_html
    /\ pw_generator \in WalkGenerators
    /\ pw_filter \in BOOLEAN
    /\ pw_image_counter = 0
    /\ pw_calls = <<>>
    /\ pw_text = <<>>
    /\ pw_ret = <<>>
    /\ pw_pc = "decompose"

WalkIdle ==
    /\ pw_html = <<>>
    /\ pw_soup = <<>>
    /\ pw_generator = [name_dictionary |-> EmptyDictionary,
                       preserve_long_vowel |-> FALSE]
    /\ pw_filter = FALSE
    /\ pw_image_counter = 0
    /\ pw_calls = <<>>
    /\ pw_text = <<>>
    /\ pw_ret = <<>>
    /\ pw_pc = "idle"

\* for element in soup.find_all(['nav', ...]): element.decompose()
WalkDecompose ==
    /\ pw_pc = "decompose"
    /\ pw_soup' = decompose(pw_soup)
    /\ pw_pc' = "images"
    /\ UNCHANGED <<pw_html, pw_generator, pw_filter, pw_image_counter,
                   pw_calls, pw_text, pw_ret>>

\* for img_tag in soup.find_all('img'): ...
WalkImages ==
    /\ pw_pc = "images"
    /\ LET r == replace_images(pw_soup, 0)
       IN /\ pw_soup' = r.nodes
          /\ pw_image_counter' = r.image_counter
    /\ pw_pc' = "extract"
    /\ UNCHANGED <<pw_html, pw_generator, pw_filter, pw_calls, pw_text, pw_ret>>

\* The functions from the texts passed to the tagger to what add_furigana
\* may return for each.
TaggerChoices(texts) ==
    LET outs(t) == add_furigana(t, pw_generator.name_dictionary, pw_filter,
                                pw_generator.preserve_long_vowel)
    IN { f \in [texts -> UNION {outs(t) : t \in texts}] :
           \A t \in texts : f[t] \in outs(t) }

\* text = extract_text_with_ruby(soup)
WalkExtract ==
    /\ pw_pc = "extract"
    /\ LET calls == annotator_calls(pw_soup, 1, <<>>)
       IN /\ pw_calls' = calls
          /\ \E tagger \in TaggerChoices({calls[i].text : i \in 1..Len(calls)}) :
                pw_text' = extract_text_with_ruby(pw_soup, tagger)
    /\ pw_pc' = "cleanup"
    /\ UNCHANGED <<pw_html, pw_soup, pw_generator, pw_filter,
                   pw_image_counter, pw_ret>>

\* text = re.sub(r'\n{3,}', '\n\n', text); return text.strip()
WalkCleanup ==
    /\ pw_pc = "cleanup"
    /\ pw_ret' = Strip(collapse_newlines(pw_text))
    /\ pw_pc' = "done"
    /\ UNCHANGED <<pw_html, pw_soup, pw_generator, pw_filter,
                   pw_image_counter, pw_calls, pw_text>>

(***************************************************************************)
(* Claims about preserve_existing_ruby (SpecWalk)                          *)
(***************************************************************************)

\* The ruby nodes of a tree.
RECURSIVE RubyNodes(_)
RubyNodes(nodes) ==
    IF nodes = <<>> THEN {}
    ELSE (IF Head(nodes).name = "ruby" THEN {Head(nodes)} ELSE {})
         \cup RubyNodes(Head(nodes).kids) \cup RubyNodes(Tail(nodes))

\* The text of the children of a ruby node outside rt (inside = FALSE) or
\* inside rt (inside = TRUE).
RECURSIVE RubyText(_, _)
RubyText(ks, inside) ==
    IF ks = <<>> THEN <<>>
    ELSE (IF Head(ks).name = "#text" /\ ~inside THEN Head(ks).text
          ELSE IF Head(ks).name = "rt" /\ inside
               THEN Join([i \in 1..Len(Head(ks).kids) |-> Head(ks).kids[i].text])
               ELSE <<>>)
         \o RubyText(Tail(ks), inside)

\* The node of a tree at a path of child indices.
RECURSIVE NodeAt(_, _)
NodeAt(nodes, path) ==
    IF Len(path) = 1 THEN nodes[path[1]]
    ELSE NodeAt(nodes[path[1]].kids, Tail(path))

\* C2: when preserve_existing_ruby has returned, the output contains the base
\* text and the reading text of every ruby node of the input unchanged, and
\* no text passed to the annotator lies inside a ruby node.
C2_RubyVerbatim ==
    pw_pc = "done" =>
        /\ \A r \in RubyNodes(pw_html) :
              /\ Contains(pw_ret, RubyText(r.kids, FALSE))
              /\ Contains(pw_ret, RT_OPEN \o RubyText(r.kids, TRUE) \o RT_CLOSE)
        /\ \A i \in 1..Len(pw_calls) :
              \A n \in 1..(Len(pw_calls[i].path) - 1) :
                 NodeAt(pw_soup, SubSeq(pw_calls[i].path, 1, n)).name # "ruby"

(***************************************************************************)
(* SpecKana: one call of _katakana_to_hiragana                             *)
(***************************************************************************)

MaxKanaLen == 3

\* ー カ シ ス テ ヨ ャ ァ ィ ゥ ェ ォ ン ヷ ゠ ヿ い A
KanaChars ==
    {12540, 12459, 12471, 12473, 12486, 12520, 12515, 12449, 12451, 12453,
     12455, 12457, 12531, 12535, 12448, 12543, 12356, 65}

KanaTexts == UNION {[1..n -> KanaChars] : n \in 0..MaxKanaLen}

KanaInit ==
    /\ kh_text \in KanaTexts
    /\ kh_preserve \in BOOLEAN
    /\ kh_i = 1
    /\ kh_result = <<>>
    /\ kh_ret = <<>>
    /\ kh_pc = "loop"

KanaIdle ==
    /\ kh_text = <<>>
    /\ kh_preserve = FALSE
    /\ kh_i = 1
    /\ kh_result = <<>>
    /\ kh_ret = <<>>
    /\ kh_pc = "idle"

\* one iteration of the loop, whatever the character
KanaStep ==
    /\ kh_pc = "loop"
    /\ kh_i <= Len(kh_text)
    /\ kh_result' = Append(kh_result,
                           katakana_char(kh_text, kh_i, kh_result, kh_preserve))
    /\ kh_i' = kh_i + 1
    /\ UNCHANGED <<kh_text, kh_preserve, kh_ret, kh_pc>>

\* if char == 'ー': ...
KanaLongMark ==
    /\ kh_i <= Len(kh_text)
    /\ <<kh_text[kh_i]>> = LONG_VOWEL_MARK
    /\ KanaStep

\* elif 0x30A1 <= code <= 0x30F6: result.append(chr(code - 0x60))
KanaKatakana ==
    /\ kh_i <= Len(kh_text)
    /\ <<kh_text[kh_i]>> # LONG_VOWEL_MARK
    /\ 12449 <= kh_text[kh_i] /\ kh_text[kh_i] <= 12534
    /\ KanaStep

\* else: result.append(char)
KanaOther ==
    /\ kh_i <= Len(kh_text)
    /\ <<kh_text[kh_i]>> # LONG_VOWEL_MARK
    /\ ~(12449 <= kh_text[kh_i] /\ kh_text[kh_i] <= 12534)
    /\ KanaStep

\* return ''.join(result)
KanaReturn ==
    /\ kh_pc = "loop"
    /\ kh_i > Len(kh_text)
    /\ kh_ret' = kh_result
    /\ kh_pc' = "done"
    /\ UNCHANGED <<kh_text, kh_preserve, kh_i, kh_result>>

(***************************************************************************)
(* Claims about _katakana_to_hiragana (SpecKana)                           *)
(***************************************************************************)

\* The rows of the long-vowel table (hiragana).
A_ROW == {12354, 12363, 12364, 12373, 12374, 12383, 12384, 12394, 12399,
          12400, 12401, 12414, 12420, 12425, 12431}

I_ROW == {12356, 12365, 12366, 12375, 12376, 12385, 12386, 12395, 12402,
          12403, 12404, 12415, 12426}

U_ROW == {12358, 12367, 12368, 12377, 12378, 12388, 12389, 12396, 12405,
          12406, 12407, 12416, 12422, 12427}

E_ROW == {12360, 12369, 12370, 12379, 12380, 12390, 12391, 12397, 12408,
          12409, 12410, 12417, 12428}

O_ROW == {12362, 12371, 12372, 12381, 12382, 12392, 12393, 12398, 12411,
          12412, 12413, 12418, 12424, 12429, 12434}

\* ぁ ぃ ぅ ぇ ぉ
SMALL_VOWELS == {12353, 12355, 12357, 12359, 12361}

\* The vowel the table gives for a predecessor that is not a small vowel:
\* あ for the a-row, い for the i-row and the e-row, う otherwise.
RowVowel(prev_char) ==
    IF prev_char \in A_ROW THEN 12354
    ELSE IF prev_char \in I_ROW \cup E_ROW THEN 12356
    ELSE 12358

\* C11: in the returned string, a long-vowel mark that follows a character
\* (other than a small vowel kana, which has its own table row) has become
\* the vowel of the row of the character emitted just before it when
\* preserve_long_vowel is false, and every long-vowel mark is still ー when
\* preserve_long_vowel is true.
C11_LongVowelByRow ==
    kh_pc = "done" =>
        /\ Len(kh_ret) = Len(kh_text)
        /\ \A i \in 1..Len(kh_text) :
              kh_text[i] = 12540 =>
                 IF kh_preserve THEN kh_ret[i] = 12540
                 ELSE (i > 1 /\ kh_ret[i - 1] \notin SMALL_VOWELS)
                         => kh_ret[i] = RowVowel(kh_ret[i - 1])

\* C11 witness: シヨー has been converted without preserve_long_vowel and
\* ends in う.
C11_Witness ==
    /\ kh_pc = "done"
    /\ ~kh_preserve
    /\ kh_text = <<12471, 12520, 12540>>
    /\ kh_ret = <<12375, 12424, 12358>>

\* C12 as stated: without preserve_long_vowel the returned string never
\* contains ー, a leading ー having become う.
C12_NoLongMarkLeft ==
    (kh_pc = "done" /\ ~kh_preserve) =>
        /\ \A i \in 1..Len(kh_ret) : kh_ret[i] # 12540
        /\ (kh_text # <<>> /\ kh_text[1] = 12540) => kh_ret[1] = 12358

\* C12 amended: without preserve_long_vowel a ー that is the first character
\* of the reading is kept, and it is the only ー of the returned string.
C12_LeadingMarkKept ==
    (kh_pc = "done" /\ ~kh_preserve) =>
        \A i \in 1..Len(kh_ret) :
            kh_ret[i] = 12540 <=> (i = 1 /\ kh_text[1] = 12540)

\* C12 witness: a reading that begins with two long-vowel marks has been
\* converted without preserve_long_vowel.
C12_Witness ==
    /\ kh_pc = "done"
    /\ ~kh_preserve
    /\ Len(kh_text) >= 2
    /\ kh_text[1] = 12540
    /\ kh_text[2] = 12540
    /\ kh_ret[1] = 12540
    /\ kh_ret[2] = 12358

\* The vowel the claim gives a long-vowel mark after a small vowel kana.
SmallVowel(prev_char) ==
    CASE prev_char = 12353 -> 12354
      [] prev_char = 12355 -> 12356
      [] prev_char = 12357 -> 12358
      [] prev_char = 12359 -> 12356
      [] prev_char = 12361 -> 12362

\* C13: after a small vowel kana the long-vowel mark becomes that vowel
\* (ぁ あ, ぃ い, ぅ う, ぉ お), except ぇ, which gives い.
C13_SmallVowelSame ==
    (kh_pc = "done" /\ ~kh_preserve) =>
        \A i \in 2..Len(kh_text) :
            (kh_text[i] = 12540 /\ kh_ret[i - 1] \in SMALL_VOWELS)
               => kh_ret[i] = SmallVowel(kh_ret[i - 1])

\* What the claim returns for a character other than ー when the katakana
\* range is lo..hi.
ShiftedFrom(char, lo, hi) ==
    IF lo <= char /\ char <= hi THEN char - 96 ELSE char

\* C14 as stated: the returned string has the length of the reading, and
\* every character other than ー is 0x60 lower if it lies in U+30A0..U+30FF
\* and unchanged otherwise.
C14_KatakanaBlockShift ==
    kh_pc = "done" =>
        /\ Len(kh_ret) = Len(kh_text)
        /\ \A i \in 1..Len(kh_text) :
              kh_text[i] # 12540
                 => kh_ret[i] = ShiftedFrom(kh_text[i], 12448, 12543)

\* C14 amended: the same with the range U+30A1..U+30F6 (ァ to ヶ); the other
\* code points of the katakana block are unchanged.
C14_KatakanaLetterShift ==
    kh_pc = "done" =>
        /\ Len(kh_ret) = Len(kh_text)
        /\ \A i \in 1..Len(kh_text) :
              kh_text[i] # 12540
                 => kh_ret[i] = ShiftedFrom(kh_text[i], 12449, 12534)

\* C14 witness: a reading with a katakana letter, a katakana-block code point
\* outside ァ..ヶ and a hiragana has been converted.
C14_Witness ==
    /\ kh_pc = "done"
    /\ kh_text = <<12459, 12535, 12356>>
    /\ kh_ret = <<12363, 12535, 12356>>

\* The placeholders of the images of a tree, in document order, counting
\* from image_counter: [tokens, image_counter].
RECURSIVE ImagePlaceholders(_, _)
ImagePlaceholders(nodes, image_counter) ==
    IF nodes = <<>> THEN [tokens |-> <<>>, image_counter |-> image_counter]
    ELSE LET n == Head(nodes)
         IN IF n.name = "img"
            THEN LET rest == ImagePlaceholders(Tail(nodes), image_counter + 1)
                 IN [tokens |-> <<placeholder(n.text, image_counter + 1)>>
                                    \o rest.tokens,
                     image_counter |-> rest.image_counter]
            ELSE LET inner == ImagePlaceholders(n.kids, image_counter)
                     rest == ImagePlaceholders(Tail(nodes), inner.image_counter)
                 IN [tokens |-> inner.tokens \o rest.tokens,
                     image_counter |-> rest.image_counter]

\* C15: when preserve_existing_ruby has returned, every image of the markup
\* (outside the removed nav/script/style/meta/link elements) stands in the
\* output as [IMAGE:<filename>] on a line of its own: a line break, or an end
\* of the output, directly before and directly after the unaltered token.
C15_ImageOnOwnLine ==
    pw_pc = "done" =>
        LET tokens == ImagePlaceholders(decompose(pw_html), 0).tokens
        IN \A k \in 1..Len(tokens) :
              Contains(<<10>> \o pw_ret \o <<10>>, tokens[k])

\* The text nodes of a tree outside ruby, in document order.
RECURSIVE TextLeaves(_)
TextLeaves(nodes) ==
    IF nodes = <<>> THEN <<>>
    ELSE (IF Head(nodes).name = "#text" THEN <<Head(nodes).text>>
          ELSE IF Head(nodes).name = "ruby" THEN <<>>
          ELSE TextLeaves(Head(nodes).kids))
         \o TextLeaves(Tail(nodes))

\* C16: every text leaf outside ruby is handed to add_furigana whole: the
\* texts passed are, in order, the texts of the text nodes outside ruby, with
\* no character removed.
C16_LeafPassedWhole ==
    pw_pc = "done" =>
        /\ \A i \in 1..Len(pw_calls) :
              pw_calls[i].text = NodeAt(pw_soup, pw_calls[i].path).text
        /\ Len(pw_calls) = Len(TextLeaves(pw_soup))

(***************************************************************************)
(* extract-ruby-smart.py: extract_words_from_html as one function, for     *)
(* main                                                                    *)
(***************************************************************************)

\* HEURISTIC 1 as a whole: [nodes, current_ruby, base, reading,
\* processed_rubies] when the while loop breaks; nodes is the sibling list
\* as the calls of extract_ruby_base on the next ruby tags have left it
RECURSIVE merge_compound(_, _, _, _, _)
merge_compound(nodes, current_ruby, base, reading, processed_rubies) ==
    LET next_ruby == get_next_sibling_ruby(nodes, current_ruby)
    IN IF merges_with_next(nodes, current_ruby, base)
       THEN LET nb == extract_ruby_base(nodes[next_ruby])
            IN merge_compound(after_extract(nodes, next_ruby), next_ruby,
                              base \o nb[1], reading \o nb[2],
                              processed_rubies \cup {next_ruby})
       ELSE [nodes |-> after_extract(nodes, next_ruby),
             current_ruby |-> current_ruby, base |-> base,
             reading |-> reading, processed_rubies |-> processed_rubies]

\* for ruby in rubies: ... from the k-th ruby tag on
RECURSIVE extract_words_loop(_, _, _, _)
extract_words_loop(nodes, k, processed_rubies, words) ==
    LET found == RubyPositions(nodes, 1)
    IN IF k > Len(found) THEN words
       ELSE IF found[k] \in processed_rubies
            THEN extract_words_loop(nodes, k + 1, processed_rubies, words)
       ELSE IF skips_ruby(nodes, found[k], processed_rubies)
            THEN extract_words_loop(after_extract(nodes, found[k]), k + 1,
                                    processed_rubies, words)
            ELSE LET br == extract_ruby_base(nodes[found[k]])
                     m == merge_compound(after_extract(nodes, found[k]),
                                         found[k], br[1], br[2],
                                         processed_rubies \cup {found[k]})
                     suffix == found_suffix(
                                   get_trailing_text(m.nodes, m.current_ruby),
                                   m.base)
                 IN extract_words_loop(m.nodes, k + 1, m.processed_rubies,
                        store_word(words, m.base \o suffix,
                                   m.reading \o suffix))

extract_words_from_html(nodes) ==
    extract_words_loop(nodes, 1, {}, EmptyDictionary)

\* all_words.update(chapter_words)
all_words_update(all_words, chapter_words) ==
    [w \in DOMAIN all_words \cup DOMAIN chapter_words |->
        IF w \in DOMAIN chapter_words THEN chapter_words[w] ELSE all_words[w]]

(***************************************************************************)
(* SpecBook: main of extract-ruby-smart.py over the items of one book      *)
(***************************************************************************)

MaxItems == 3

\* chapters: 留/と; 留/る; 留/と 守/もり; 行/い "った";
\* い留/と <ruby>東<rt>とう</rt>京<rt>きょう</rt></ruby>; no ruby at all
BookChapters ==
    { <<RubyNode(<<30041>>, <<12392>>)>>,
      <<RubyNode(<<30041>>, <<12427>>)>>,
      <<RubyNode(<<30041>>, <<12392>>), RubyNode(<<23432>>, <<12418, 12426>>)>>,
      <<RubyNode(<<34892>>, <<12356>>), TextNode(<<12387, 12383>>)>>,
      <<RubyNode(<<12356, 30041>>, <<12392>>),
        RubyTag(<<RubyString(<<26481>>), RubyRt(<<12392, 12358>>),
                  RubyString(<<20140>>), RubyRt(<<12365, 12423, 12358>>)>>)>>,
      <<>> }

\* an item is a document (ITEM_DOCUMENT) or something else (image, style)
BookItems ==
    {[document |-> TRUE, nodes |-> c] : c \in BookChapters}
        \cup {[document |-> FALSE, nodes |-> <<>>]}

BookInit ==
    /\ bk_items \in UNION {[1..n -> BookItems] : n \in 0..MaxItems}
    /\ bk_k = 0
    /\ bk_chapter_words = EmptyDictionary
    /\ bk_all_words = EmptyDictionary
    /\ bk_pc = "loop"

BookIdle ==
    /\ bk_items = <<>>
    /\ bk_k = 0
    /\ bk_chapter_words = EmptyDictionary
    /\ bk_all_words = EmptyDictionary
    /\ bk_pc = "idle"

\* if item.get_type() == ebooklib.ITEM_DOCUMENT: chapter_words =
\* extract_words_from_html(html); all_words.update(chapter_words)
BookChapter ==
    /\ bk_pc = "loop"
    /\ bk_k < Len(bk_items)
    /\ bk_items[bk_k + 1].document
    /\ LET chapter_words == extract_words_from_html(bk_items[bk_k + 1].nodes)
       IN /\ bk_chapter_words' = chapter_words
          /\ bk_all_words' = all_words_update(bk_all_words, chapter_words)
    /\ bk_k' = bk_k + 1
    /\ UNCHANGED <<bk_items, bk_pc>>

\* an item of another type
BookOtherItem ==
    /\ bk_pc = "loop"
    /\ bk_k < Len(bk_items)
    /\ ~bk_items[bk_k + 1].document
    /\ bk_k' = bk_k + 1
    /\ UNCHANGED <<bk_items, bk_chapter_words, bk_all_words, bk_pc>>

\* except Exception as e: a document that cannot be decoded or parsed ends
\* the work on the book
BookFails ==
    /\ bk_pc = "loop"
    /\ bk_k < Len(bk_items)
    /\ bk_items[bk_k + 1].document
    /\ bk_pc' = "failed"
    /\ UNCHANGED <<bk_items, bk_k, bk_chapter_words, bk_all_words>>

\* the loop over book.get_items() ends
BookDone ==
    /\ bk_pc = "loop"
    /\ bk_k = Len(bk_items)
    /\ bk_pc' = "done"
    /\ UNCHANGED <<bk_items, bk_k, bk_chapter_words, bk_all_words>>

\* C18: over the chapters of a book an entry of all_words, once made, is
\* never replaced: the word stays and keeps the reading of its first
\* occurrence.
C18_BookKeepsFirstEntry ==
    [][\A w \in DOMAIN bk_all_words :
          w \in DOMAIN bk_all_words' /\ bk_all_words'[w] = bk_all_words[w]]_bookVars

(***************************************************************************)
(* SpecTerms: one call of extract_ruby_dictionary                          *)
(***************************************************************************)

MaxTags == 3

\* 留/と, 留/る, い/い, <ruby>守</ruby> (no <rt>), <ruby>留<rt></rt></ruby>
TermTags ==
    DictRubyTags \cup {[rt |-> TRUE, base |-> <<30041>>, reading |-> <<>>]}

TermDocuments == UNION {[1..n -> TermTags] : n \in 0..MaxTags}

TermsInit ==
    /\ rd_rubies \in TermDocuments
    /\ rd_i = 1
    /\ rd_frequency = <<>>
    /\ rd_ruby_dict = EmptyDictionary
    /\ rd_final = EmptyDictionary
    /\ rd_pc = "loop"

TermsIdle ==
    /\ rd_rubies = <<>>
    /\ rd_i = 1
    /\ rd_frequency = <<>>
    /\ rd_ruby_dict = EmptyDictionary
    /\ rd_final = EmptyDictionary
    /\ rd_pc = "idle"

\* rt_tag = ruby_tag.find('rt'); if not rt_tag: continue
TermsNoRt ==
    /\ rd_pc = "loop"
    /\ rd_i <= Len(rd_rubies)
    /\ ~rd_rubies[rd_i].rt
    /\ rd_i' = rd_i + 1
    /\ UNCHANGED <<rd_rubies, rd_frequency, rd_ruby_dict, rd_final, rd_pc>>

\* if base_text and reading: frequency[key] += 1; ruby_dict[base_text] = reading
TermsCount ==
    /\ rd_pc = "loop"
    /\ rd_i <= Len(rd_rubies)
    /\ LET ruby_tag == rd_rubies[rd_i]
       IN /\ ruby_tag.rt
          /\ ruby_tag.base # <<>> /\ ruby_tag.reading # <<>>
          /\ rd_frequency' =
                CounterAdd(rd_frequency, <<ruby_tag.base, ruby_tag.reading>>)
          /\ rd_ruby_dict' =
                [b \in DOMAIN rd_ruby_dict \cup {ruby_tag.base} |->
                    IF b = ruby_tag.base THEN ruby_tag.reading
                    ELSE rd_ruby_dict[b]]
    /\ rd_i' = rd_i + 1
    /\ UNCHANGED <<rd_rubies, rd_final, rd_pc>>

\* a ruby tag with <rt> whose base text or reading is empty
TermsEmpty ==
    /\ rd_pc = "loop"
    /\ rd_i <= Len(rd_rubies)
    /\ rd_rubies[rd_i].rt
    /\ rd_rubies[rd_i].base = <<>> \/ rd_rubies[rd_i].reading = <<>>
    /\ rd_i' = rd_i + 1
    /\ UNCHANGED <<rd_rubies, rd_frequency, rd_ruby_dict, rd_final, rd_pc>>

\* lines 380-394: final_dict from frequency; return final_dict
TermsResolve ==
    /\ rd_pc = "loop"
    /\ rd_i > Len(rd_rubies)
    /\ LET base_texts == {rd_frequency[n].key[1] : n \in 1..Len(rd_frequency)}
       IN rd_final' = [base_text \in base_texts |->
                          MaxByCount(ReadingsForBase(rd_frequency, base_text))]
    /\ rd_pc' = "done"
    /\ UNCHANGED <<rd_rubies, rd_i, rd_frequency, rd_ruby_dict>>

(***************************************************************************)
(* Claims about extract_ruby_dictionary (SpecTerms)                        *)
(***************************************************************************)

\* The (base, reading) pairs of the ruby tags of a document that have an
\* <rt>, a base text and a reading.
ValidPairs(ruby_tags) ==
    { <<ruby_tags[i].base, ruby_tags[i].reading>> :
        i \in {j \in 1..Len(ruby_tags) :
                  /\ ruby_tags[j].rt
                  /\ ruby_tags[j].base # <<>>
                  /\ ruby_tags[j].reading # <<>>} }

\* The position of the first ruby tag of a document with this pair.
FirstSeen(ruby_tags, pair) ==
    SetMin({i \in 1..Len(ruby_tags) :
               ruby_tags[i].rt /\ <<ruby_tags[i].base, ruby_tags[i].reading>> = pair})

\* C19: every pair kept from ruby markup has a reading that is not empty and
\* differs from its base, in the dictionary of extract_ruby_dictionary as in
\* the words of extract_words_from_html.
C19_BaseDiffersFromReading ==
    /\ rd_pc = "done" =>
          \A b \in DOMAIN rd_final : rd_final[b] # <<>> /\ rd_final[b] # b
    /\ \A w \in DOMAIN ew_words : ew_words[w] # <<>> /\ ew_words[w] # w

\* C20: the dictionary of one document has exactly the terms that occur with
\* a reading, each with the reading of the highest occurrence count, and
\* among readings of equal count the one seen first in the document.
C20_MostFrequentFirstSeen ==
    rd_pc = "done" =>
        /\ DOMAIN rd_final = {p[1] : p \in ValidPairs(rd_rubies)}
        /\ \A b \in DOMAIN rd_final :
              LET chosen == <<b, rd_final[b]>>
              IN /\ chosen \in ValidPairs(rd_rubies)
                 /\ \A q \in ValidPairs(rd_rubies) :
                       (q[1] = b /\ q # chosen) =>
                          \/ Occurrences(rd_rubies, q)
                                < Occurrences(rd_rubies, chosen)
                          \/ /\ Occurrences(rd_rubies, q)
                                   = Occurrences(rd_rubies, chosen)
                             /\ FirstSeen(rd_rubies, chosen)
                                   < FirstSeen(rd_rubies, q)

\* C20 witness: a document in which a term has two readings with the same
\* count has been resolved, and the dictionary has the one seen first.
C20_Witness ==
    /\ rd_pc = "done"
    /\ \E p, q \in ValidPairs(rd_rubies) :
          /\ p[1] = q[1]
          /\ p # q
          /\ Occurrences(rd_rubies, p) = Occurrences(rd_rubies, q)
          /\ FirstSeen(rd_rubies, p) < FirstSeen(rd_rubies, q)
          /\ rd_final[p[1]] = p[2]

(***************************************************************************)
(* utils/dedupe-rephrase-file.py                                           *)
(***************************************************************************)

\* '__PREAMBLE__'
PREAMBLE == <<95, 95, 80, 82, 69, 65, 77, 66, 76, 69, 95, 95>>

\* </?(?:ruby|rt|rb)>
HeaderTags ==
    { <<60, 114, 117, 98, 121, 62>>, <<60, 47, 114, 117, 98, 121, 62>>,
      <<60, 114, 116, 62>>, <<60, 47, 114, 116, 62>>,
      <<60, 114, 98, 62>>, <<60, 47, 114, 98, 62>> }

\* re.sub(r'</?(?:ruby|rt|rb)>', '', header), from position i
RECURSIVE remove_tags(_, _)
remove_tags(header, i) ==
    IF i > Len(header) THEN <<>>
    ELSE LET here == {p \in HeaderTags : HasAt(header, i, p)}
         IN IF here # {}
            THEN remove_tags(header, i + Len(CHOOSE p \in here : TRUE))
            ELSE <<header[i]>> \o remove_tags(header, i + 1)

\* normalize_header: the ruby tags and all white space removed
normalize_header(header) ==
    SelectSeq(remove_tags(header, 1), LAMBDA c : ~IsSpace(c))

\* stripped.startswith('< ') or
\* (stripped.startswith('<') and not stripped.startswith('</'))
is_section_start(stripped) ==
    \/ StartsWith(stripped, <<60, 32>>)
    \/ StartsWith(stripped, <<60>>) /\ ~StartsWith(stripped, <<60, 47>>)

\* stripped.startswith('<ruby') or '<rt' or '<rb'
is_html_tag(stripped) ==
    \/ StartsWith(stripped, <<60, 114, 117, 98, 121>>)
    \/ StartsWith(stripped, <<60, 114, 116>>)
    \/ StartsWith(stripped, <<60, 114, 98>>)

\* header = stripped[1:].strip(); the new section of a header line
new_section(line) ==
    LET header == Strip(Tail(Strip(line)))
    IN [header |-> header, lines |-> <<line>>,
        normalized |-> normalize_header(header)]

\* current_section['lines'].append(line)
append_line(current, line) ==
    <<[current[1] EXCEPT !.lines = Append(@, line)]>>

\* find_duplicates: (unique, removed)
RECURSIVE find_duplicates(_, _, _, _)
find_duplicates(sections, seen, unique, removed) ==
    IF sections = <<>> THEN <<unique, removed>>
    ELSE LET section == Head(sections)
             norm == section.normalized
         IN IF norm = PREAMBLE
            THEN find_duplicates(Tail(sections), seen,
                                 Append(unique, section), removed)
            ELSE IF norm \notin seen
            THEN find_duplicates(Tail(sections), seen \cup {norm},
                                 Append(unique, section), removed)
            ELSE find_duplicates(Tail(sections), seen, unique,
                                 Append(removed, section))

\* sections_to_content: '\n'.join of the lines of the sections
sections_to_content(sections) ==
    JoinWith(Join([k \in 1..Len(sections) |-> sections[k].lines]), 10)

(***************************************************************************)
(* SpecDedupe: process_file on one file content                            *)
(***************************************************************************)

MaxFileLines == 3

\* "い", "< a", "<a", "< <rb>a</rb>", "< b", "<ruby>", "</a", ""
DedupeLines ==
    { <<12356>>, <<60, 32, 97>>, <<60, 97>>,
      <<60, 32, 60, 114, 98, 62, 97, 60, 47, 114, 98, 62>>,
      <<60, 32, 98>>, <<60, 114, 117, 98, 121, 62>>, <<60, 47, 97>>, <<>> }

DedupeContents ==
    { JoinWith(ls, 10) :
        ls \in UNION {[1..n -> DedupeLines] : n \in 1..MaxFileLines} }

DedupeInit ==
    /\ dd_content \in DedupeContents
    /\ dd_lines = <<>>
    /\ dd_i = 1
    /\ dd_sections = <<>>
    /\ dd_current = <<>>
    /\ dd_unique = <<>>
    /\ dd_removed = <<>>
    /\ dd_new_content = <<>>
    /\ dd_pc = "split"

DedupeIdle ==
    /\ dd_content = <<>>
    /\ dd_lines = <<>>
    /\ dd_i = 1
    /\ dd_sections = <<>>
    /\ dd_current = <<>>
    /\ dd_unique = <<>>
    /\ dd_removed = <<>>
    /\ dd_new_content = <<>>
    /\ dd_pc = "idle"

\* sections = []; current_section = None; lines = content.split('\n')
ParseSplit ==
    /\ dd_pc = "split"
    /\ dd_lines' = SplitLines(dd_content, <<>>)
    /\ dd_pc' = "parse"
    /\ UNCHANGED <<dd_content, dd_i, dd_sections, dd_current, dd_unique,
                   dd_removed, dd_new_content>>

\* lines 46-49: a line that starts with <ruby, <rt or <rb
ParseTagLine ==
    /\ dd_pc = "parse"
    /\ dd_i <= Len(dd_lines)
    /\ LET line == dd_lines[dd_i]
       IN /\ is_section_start(Strip(line))
          /\ is_html_tag(Strip(line))
          /\ dd_current' = IF dd_current # <<>>
                           THEN append_line(dd_current, line)
                           ELSE dd_current
    /\ dd_i' = dd_i + 1
    /\ UNCHANGED <<dd_content, dd_lines, dd_sections, dd_unique, dd_removed,
                   dd_new_content, dd_pc>>

\* lines 51-61: a section header
ParseHeader ==
    /\ dd_pc = "parse"
    /\ dd_i <= Len(dd_lines)
    /\ LET line == dd_lines[dd_i]
       IN /\ is_section_start(Strip(line))
          /\ ~is_html_tag(Strip(line))
          /\ dd_sections' = dd_sections \o dd_current
          /\ dd_current' = <<new_section(line)>>
    /\ dd_i' = dd_i + 1
    /\ UNCHANGED <<dd_content, dd_lines, dd_unique, dd_removed,
                   dd_new_content, dd_pc>>

\* lines 62-64: a line of the current section
ParseBody ==
    /\ dd_pc = "parse"
    /\ dd_i <= Len(dd_lines)
    /\ ~is_section_start(Strip(dd_lines[dd_i]))
    /\ dd_current # <<>>
    /\ dd_current' = append_line(dd_current, dd_lines[dd_i])
    /\ dd_i' = dd_i + 1
    /\ UNCHANGED <<dd_content, dd_lines, dd_sections, dd_unique, dd_removed,
                   dd_new_content, dd_pc>>

\* lines 65-78: a line before the first section
ParsePreamble ==
    /\ dd_pc = "parse"
    /\ dd_i <= Len(dd_lines)
    /\ ~is_section_start(Strip(dd_lines[dd_i]))
    /\ dd_current = <<>>
    /\ dd_sections' =
          IF dd_sections # <<>> \/ dd_current # <<>>
          THEN dd_sections                                   \* pass
          ELSE IF dd_sections = <<>>
          THEN <<[header |-> PREAMBLE, lines |-> <<dd_lines[dd_i]>>,
                  normalized |-> PREAMBLE]>>
          ELSE [dd_sections EXCEPT ![1].lines = Append(@, dd_lines[dd_i])]
    /\ dd_i' = dd_i + 1
    /\ UNCHANGED <<dd_content, dd_lines, dd_current, dd_unique, dd_removed,
                   dd_new_content, dd_pc>>

\* lines 80-84: the last section; return sections
ParseReturn ==
    /\ dd_pc = "parse"
    /\ dd_i > Len(dd_lines)
    /\ dd_sections' = dd_sections \o dd_current
    /\ dd_pc' = "find"
    /\ UNCHANGED <<dd_content, dd_lines, dd_i, dd_current, dd_unique,
                   dd_removed, dd_new_content>>

\* process_file: unique, removed = find_duplicates(sections)
DedupeFind ==
    /\ dd_pc = "find"
    /\ LET r == find_duplicates(dd_sections, {}, <<>>, <<>>)
       IN /\ dd_unique' = r[1]
          /\ dd_removed' = r[2]
    /\ dd_pc' = "write"
    /\ UNCHANGED <<dd_content, dd_lines, dd_i, dd_sections, dd_current,
                   dd_new_content>>

\* process_file: new_content = sections_to_content(unique)
DedupeContent ==
    /\ dd_pc = "write"
    /\ dd_new_content' = sections_to_content(dd_unique)
    /\ dd_pc' = "done"
    /\ UNCHANGED <<dd_content, dd_lines, dd_i, dd_sections, dd_current,
                   dd_unique, dd_removed>>

(***************************************************************************)
(* Claims about the deduplication of a rephrase file (SpecDedupe)          *)
(***************************************************************************)

\* Line j of the file begins a section.
IsHeaderLine(lines, j) ==
    is_section_start(Strip(lines[j])) /\ ~is_html_tag(Strip(lines[j]))

\* The header line of the section line j belongs to (0: before the first).
HeaderOf(lines, j) ==
    LET before == {h \in 1..j : IsHeaderLine(lines, h)}
    IN IF before = {} THEN 0 ELSE SetMax(before)

\* Line j belongs to a section whose normalized header repeats that of an
\* earlier section.
InRepeatedSection(lines, j) ==
    LET h == HeaderOf(lines, j)
    IN /\ h # 0
       /\ \E g \in 1..(h - 1) :
             /\ IsHeaderLine(lines, g)
             /\ new_section(lines[g]).normalized
                   = new_section(lines[h]).normalized

\* C30: writing the parsed sections back gives the file content, and the
\* new content is the file without the lines of the sections whose
\* normalized header repeats an earlier one.
C30_SectionsRoundTrip ==
    /\ dd_pc \in {"find", "write", "done"} =>
          sections_to_content(dd_sections) = dd_content
    /\ dd_pc = "done" =>
          dd_new_content =
             JoinWith(Join([j \in 1..Len(dd_lines) |->
                              IF InRepeatedSection(dd_lines, j) THEN <<>>
                              ELSE <<dd_lines[j]>>]), 10)

(***************************************************************************)
(* ruby-registry.json: extract-all-ruby.py update_registry,                *)
(* migrate-ruby-registry.py process_file, extract-ruby-smart.py main       *)
(*                                                                         *)
(* An entry is a record [kanji, reading, source]; its note plays no part   *)
(* in the updates and is left out.                                         *)
(***************************************************************************)

\* a < b for Python strings: by code point, a proper prefix first
RECURSIVE StrLess(_, _)
StrLess(a, b) ==
    IF b = <<>> THEN FALSE
    ELSE IF a = <<>> THEN TRUE
    ELSE IF Head(a) # Head(b) THEN Head(a) < Head(b)
    ELSE StrLess(Tail(a), Tail(b))

\* sorted(keys) of a dict
SortedKeys(keys) ==
    CHOOSE f \in [1..Cardinality(keys) -> keys] :
        \A a, b \in 1..Cardinality(keys) : a < b => StrLess(f[a], f[b])

\* list.sort(key=lambda e: e['kanji']): a stable sort
RECURSIVE sort_by_kanji(_)
sort_by_kanji(entries) ==
    IF entries = <<>> THEN <<>>
    ELSE LET n == Len(entries)
             front == sort_by_kanji(SubSeq(entries, 1, n - 1))
             last == entries[n]
             keep == {i \in 1..(n - 1) : ~StrLess(last.kanji, front[i].kanji)}
             k == IF keep = {} THEN 0 ELSE SetMax(keep)
         IN SubSeq(front, 1, k) \o <<last>> \o SubSeq(front, k + 1, n - 1)

\* the entries made of a dict kanji -> reading, in sorted key order
entries_of(pairs, source) ==
    LET keys == SortedKeys(DOMAIN pairs)
    IN [i \in 1..Len(keys) |->
           [kanji |-> keys[i], reading |-> pairs[keys[i]], source |-> source]]

\* {e['kanji'] for e in registry['entries']}
existing_kanji(entries) == {entries[i].kanji : i \in 1..Len(entries)}

\* update_registry and the merge of process_file: the entries not yet in
\* the registry are appended and the list is sorted
merged_entries(entries, candidates) ==
    LET existing == existing_kanji(entries)
        new_entries == SelectSeq(candidates, LAMBDA e : e.kanji \notin existing)
    IN sort_by_kanji(entries \o new_entries)

(***************************************************************************)
(* SpecRegistry: script runs on one book directory                         *)
(***************************************************************************)

MaxUpdates == 2

\* 守, 留, 留守
RegistryKanji == {<<23432>>, <<30041>>, <<30041, 23432>>}

\* と, る
RegistryReadings == {<<12392>>, <<12427>>}

\* the dicts kanji -> reading a script run can extract
RegistryPairs ==
    UNION {[ks -> RegistryReadings] : ks \in SUBSET RegistryKanji}

\* no registry yet, or a uniquely keyed, sorted registry of manual entries
RegistryInit ==
    /\ rg_exists \in BOOLEAN
    /\ rg_entries \in {entries_of(pairs, "manual") : pairs \in RegistryPairs}
    /\ ~rg_exists => rg_entries = <<>>
    /\ rg_updates = 0
    /\ rg_script = ""

RegistryIdle ==
    /\ rg_exists = FALSE
    /\ rg_entries = <<>>
    /\ rg_updates = 0
    /\ rg_script = ""

\* extract-all-ruby.py: update_registry(book_dir, pairs, book_title)
RegistryUpdate ==
    /\ rg_updates < MaxUpdates
    /\ \E pairs \in RegistryPairs :
          rg_entries' = merged_entries(IF rg_exists THEN rg_entries ELSE <<>>,
                                       entries_of(pairs, "epub"))
    /\ rg_exists' = TRUE
    /\ rg_updates' = rg_updates + 1
    /\ rg_script' = "extract-all-ruby"

\* migrate-ruby-registry.py: process_file with entries to save; the file is
\* written new, merged, or left alone when it has every kanji already
RegistryMigrate ==
    /\ rg_updates < MaxUpdates
    /\ \E pairs \in RegistryPairs :
          LET entries == entries_of(pairs, "text")
          IN /\ entries # <<>>
             /\ rg_entries' =
                   IF ~rg_exists THEN entries
                   ELSE IF \A i \in 1..Len(entries) :
                              entries[i].kanji \in existing_kanji(rg_entries)
                   THEN rg_entries
                   ELSE merged_entries(rg_entries, entries)
    /\ rg_exists' = TRUE
    /\ rg_updates' = rg_updates + 1
    /\ rg_script' = "migrate-ruby-registry"

\* extract-ruby-smart.py: main writes the registry of a book from all_words
RegistryRewrite ==
    /\ rg_updates < MaxUpdates
    /\ \E all_words \in RegistryPairs :
          rg_entries' = entries_of(all_words, "epub_smart")
    /\ rg_exists' = TRUE
    /\ rg_updates' = rg_updates + 1
    /\ rg_script' = "extract-ruby-smart"

\* extract-ruby-from-epub.py: process_epub with ruby pairs found; the file
\* is written from all_pairs alone
RegistryCreate ==
    /\ rg_updates < MaxUpdates
    /\ \E all_pairs \in RegistryPairs :
          /\ DOMAIN all_pairs # {}
          /\ rg_entries' = entries_of(all_pairs, "epub")
    /\ rg_exists' = TRUE
    /\ rg_updates' = rg_updates + 1
    /\ rg_script' = "extract-ruby-from-epub"

\* epub-to-text.py: process_epub writes the file from ruby_collector alone
RegistryConvert ==
    /\ rg_updates < MaxUpdates
    /\ \E ruby_collector \in RegistryPairs :
          rg_entries' = entries_of(ruby_collector, "epub")
    /\ rg_exists' = TRUE
    /\ rg_updates' = rg_updates + 1
    /\ rg_script' = "epub-to-text"

(***************************************************************************)
(* Claims about the registry (SpecRegistry)                                *)
(***************************************************************************)

\* the updates of the claim: update_registry, the merge of process_file and
\* the rewrite of main
RegistryUpdaters ==
    {"extract-all-ruby", "migrate-ruby-registry", "extract-ruby-smart"}

\* C24: after every update by one of these the entries have at most one
\* record per kanji and are sorted by kanji, and a kanji that had a record
\* before the update has the same reading after it.
C24_RegistryUniqueSortedStable ==
    [][rg_script' \in RegistryUpdaters =>
       /\ \A i, j \in 1..Len(rg_entries') :
             i < j => StrLess(rg_entries'[i].kanji, rg_entries'[j].kanji)
       /\ \A i \in 1..Len(rg_entries) : \A j \in 1..Len(rg_entries') :
             rg_entries[i].kanji = rg_entries'[j].kanji
                => rg_entries[i].reading = rg_entries'[j].reading
      ]_registryVars

(***************************************************************************)
(* SpecClass: the kanji tests of the three components on one character     *)
(***************************************************************************)

MaxSpread == 3

\* U+3400, U+4DBF, U+4E00, U+9FAF, U+9FFF: the ends of the ranges in the code
RangeEnds == {13312, 19903, 19968, 40879, 40959}

\* the characters within MaxSpread of an end of a range, and 々
ClassChars ==
    {c \in 13000..41300 : \E b \in RangeEnds : c - b \in (0 - MaxSpread)..MaxSpread}
    \cup {12293}

ClassInit ==
    /\ cl_char \in ClassChars
    /\ cl_annot = FALSE
    /\ cl_vocab = FALSE
    /\ cl_repair = <<FALSE, FALSE, FALSE>>
    /\ cl_pc = "annot"

ClassIdle ==
    /\ cl_char = 0
    /\ cl_annot = FALSE
    /\ cl_vocab = FALSE
    /\ cl_repair = <<FALSE, FALSE, FALSE>>
    /\ cl_pc = "idle"

\* furigana_helper.py: is_kanji(char)
ClassifyAnnot ==
    /\ cl_pc = "annot"
    /\ cl_annot' = is_kanji(cl_char)
    /\ cl_pc' = "vocab"
    /\ UNCHANGED <<cl_char, cl_vocab, cl_repair>>

\* extract-ruby-smart.py: is_all_kanji(char)
ClassifyVocab ==
    /\ cl_pc = "vocab"
    /\ cl_vocab' = is_all_kanji(<<cl_char>>)
    /\ cl_pc' = "repair"
    /\ UNCHANGED <<cl_char, cl_annot, cl_repair>>

\* fix-ruby-newlines.py: KANJI_PATTERN.match, KANJI_START.match and
\* KANJI_END.search on the line made of the character
ClassifyRepair ==
    /\ cl_pc = "repair"
    /\ cl_repair' = <<FIX_KANJI_PATTERN(<<cl_char>>), KANJI_START(<<cl_char>>),
                      KANJI_END(<<cl_char>>)>>
    /\ cl_pc' = "done"
    /\ UNCHANGED <<cl_char, cl_annot, cl_vocab>>

\* C23: the three components give every character the same answer, which
\* is: the character lies in U+4E00..U+9FFF or in U+3400..U+4DBF.
C23_SameKanjiClass ==
    cl_pc = "done" =>
        LET kanji == \/ 19968 <= cl_char /\ cl_char <= 40959
                     \/ 13312 <= cl_char /\ cl_char <= 19903
        IN /\ cl_annot = kanji
           /\ cl_vocab = kanji
           /\ cl_repair = <<kanji, kanji, kanji>>

(***************************************************************************)
(* SpecMerge: should_merge_with_next called on one pair of lines           *)
(***************************************************************************)

MaxKanjiRun == 4

\* what a line may begin with before its kanji: nothing, "い", "<", "＞"
MergeHeads == {<<>>, <<12356>>, <<60>>, <<65310>>}

\* what it may end with after them: nothing, "い", "。", "、", "…"
MergeTails == {<<>>, <<12356>>, <<12290>>, <<12289>>, <<8230>>}

\* nothing or one space around the line
MergePads == {<<>>, <<32>>}

\* pad, head, 0..MaxKanjiRun times "留", tail, pad
MergeLines ==
    { p \o h \o [i \in 1..k |-> 30041] \o t \o p :
        <<p, h, k, t>> \in MergePads \X MergeHeads \X (0..MaxKanjiRun) \X MergeTails }

MergeInit ==
    /\ mg_current \in MergeLines
    /\ mg_next \in MergeLines
    /\ mg_ret = FALSE
    /\ mg_pc = "call"

MergeIdle ==
    /\ mg_current = <<>>
    /\ mg_next = <<>>
    /\ mg_ret = FALSE
    /\ mg_pc = "done"

MergeCall ==
    /\ mg_pc = "call"
    /\ mg_ret' = should_merge_with_next(mg_current, mg_next)
    /\ mg_pc' = "done"
    /\ UNCHANGED <<mg_current, mg_next>>

\* the words of the five conditions, read on a trimmed line
OneToThreeKanji(line) ==
    /\ Len(line) \in 1..3
    /\ \A i \in 1..Len(line) : FixKanji(line[i])

StartsWithHiragana(line) == Len(line) >= 1 /\ line[1] \in 12352..12447

StartsWithKanjiChar(line) == Len(line) >= 1 /\ FixKanji(line[1])

EndsInKanji(line) == Len(line) >= 1 /\ FixKanji(line[Len(line)])

StartsWithMarker(line) == Len(line) >= 1 /\ line[1] \in {60, 62, 65308, 65310}

EndsInClosingPunctuation(line) ==
    /\ Len(line) >= 1
    /\ line[Len(line)] \in {12290, 12289, 12301, 12303, 65289, 41, 65281, 65311, 8230, 8213}

EndsInSentenceEnd(line) ==
    /\ Len(line) >= 1
    /\ line[Len(line)] \in {12290, 12301, 12303, 65289, 41, 65281, 65311}

MergeCondition1(c, n) ==
    OneToThreeKanji(c) /\ (StartsWithHiragana(n) \/ OneToThreeKanji(n))

MergeCondition2(c, n) ==
    OneToThreeKanji(n) /\ ~EndsInClosingPunctuation(c) /\ ~StartsWithMarker(n)

MergeCondition3(c, n) ==
    EndsInKanji(c) /\ StartsWithHiragana(n) /\ ~StartsWithMarker(n)

MergeCondition4(c, n) ==
    ~EndsInSentenceEnd(c) /\ OneToThreeKanji(n) /\ ~StartsWithMarker(n)

MergeCondition5(c, n) ==
    /\ Len(c) >= 1 /\ c[Len(c)] = 12289
    /\ StartsWithKanjiChar(n) /\ ~StartsWithMarker(n)

\* C22: should_merge_with_next(current, next) is true exactly when both
\* lines are non-blank after trimming and at least one of the five listed
\* conditions holds of the trimmed lines.
C22_MergeExactlyFiveConditions ==
    mg_pc = "done" =>
        LET c == Strip(mg_current)
            n == Strip(mg_next)
        IN mg_ret <=>
             /\ c # <<>> /\ n # <<>>
             /\ \/ MergeCondition1(c, n)
                \/ MergeCondition2(c, n)
                \/ MergeCondition3(c, n)
                \/ MergeCondition4(c, n)
                \/ MergeCondition5(c, n)

\* "い、 " before " 留留留留い": only the comma condition holds, after trimming
C22_Witness ==
    /\ mg_pc = "done"
    /\ mg_ret
    /\ mg_current # Strip(mg_current)
    /\ mg_next # Strip(mg_next)
    /\ MergeCondition5(Strip(mg_current), Strip(mg_next))
    /\ ~MergeCondition1(Strip(mg_current), Strip(mg_next))
    /\ ~MergeCondition2(Strip(mg_current), Strip(mg_next))
    /\ ~MergeCondition3(Strip(mg_current), Strip(mg_next))
    /\ ~MergeCondition4(Strip(mg_current), Strip(mg_next))
    /\ Len(Strip(mg_next)) > 3

(***************************************************************************)
(* Specifications: one per component; the other components stay idle.      *)
(***************************************************************************)

vars == <<annotVars, dictVars, vocabVars, repairVars, walkVars, kanaVars,
         bookVars, termVars,
         dedupeVars,
         registryVars,
         classVars,
         mergeVars>>

InitAnnot == AnnotInit /\ DictIdle /\ VocabIdle /\ RepairIdle /\ WalkIdle /\ KanaIdle
    /\ BookIdle /\ TermsIdle
    /\ DedupeIdle
    /\ RegistryIdle
    /\ ClassIdle
    /\ MergeIdle

NextAnnot ==
    \/ AddFuriganaBlank /\ UNCHANGED <<dictVars, vocabVars, repairVars, walkVars, kanaVars, bookVars, termVars, dedupeVars, registryVars, classVars, mergeVars>>
    \/ AddFuriganaParse /\ UNCHANGED <<dictVars, vocabVars, repairVars, walkVars, kanaVars, bookVars, termVars, dedupeVars, registryVars, classVars, mergeVars>>
    \/ AddFuriganaLine /\ UNCHANGED <<dictVars, vocabVars, repairVars, walkVars, kanaVars, bookVars, termVars, dedupeVars, registryVars, classVars, mergeVars>>
    \/ AddFuriganaReturn /\ UNCHANGED <<dictVars, vocabVars, repairVars, walkVars, kanaVars, bookVars, termVars, dedupeVars, registryVars, classVars, mergeVars>>

SpecAnnot == InitAnnot /\ [][NextAnnot]_vars

InitDict == DictInit /\ AnnotIdle /\ VocabIdle /\ RepairIdle /\ WalkIdle /\ KanaIdle
    /\ BookIdle /\ TermsIdle
    /\ DedupeIdle
    /\ RegistryIdle
    /\ ClassIdle
    /\ MergeIdle

NextDict ==
    \/ DictChapter /\ UNCHANGED <<annotVars, vocabVars, repairVars, walkVars, kanaVars, bookVars, termVars, dedupeVars, registryVars, classVars, mergeVars>>
    \/ DictChapterFails /\ UNCHANGED <<annotVars, vocabVars, repairVars, walkVars, kanaVars, bookVars, termVars, dedupeVars, registryVars, classVars, mergeVars>>
    \/ DictDone /\ UNCHANGED <<annotVars, vocabVars, repairVars, walkVars, kanaVars, bookVars, termVars, dedupeVars, registryVars, classVars, mergeVars>>

SpecDict == InitDict /\ [][NextDict]_vars

InitVocab == VocabInit /\ AnnotIdle /\ DictIdle /\ RepairIdle /\ WalkIdle /\ KanaIdle
    /\ BookIdle /\ TermsIdle
    /\ DedupeIdle
    /\ RegistryIdle
    /\ ClassIdle
    /\ MergeIdle

NextVocab ==
    \/ VocabSkip /\ UNCHANGED <<annotVars, dictVars, repairVars, walkVars, kanaVars, bookVars, termVars, dedupeVars, registryVars, classVars, mergeVars>>
    \/ VocabStart /\ UNCHANGED <<annotVars, dictVars, repairVars, walkVars, kanaVars, bookVars, termVars, dedupeVars, registryVars, classVars, mergeVars>>
    \/ VocabMergeAbsorb /\ UNCHANGED <<annotVars, dictVars, repairVars, walkVars, kanaVars, bookVars, termVars, dedupeVars, registryVars, classVars, mergeVars>>
    \/ VocabMergeStop /\ UNCHANGED <<annotVars, dictVars, repairVars, walkVars, kanaVars, bookVars, termVars, dedupeVars, registryVars, classVars, mergeVars>>
    \/ VocabOkurigana /\ UNCHANGED <<annotVars, dictVars, repairVars, walkVars, kanaVars, bookVars, termVars, dedupeVars, registryVars, classVars, mergeVars>>
    \/ VocabStore /\ UNCHANGED <<annotVars, dictVars, repairVars, walkVars, kanaVars, bookVars, termVars, dedupeVars, registryVars, classVars, mergeVars>>
    \/ VocabReturn /\ UNCHANGED <<annotVars, dictVars, repairVars, walkVars, kanaVars, bookVars, termVars, dedupeVars, registryVars, classVars, mergeVars>>

SpecVocab == InitVocab /\ [][NextVocab]_vars

InitRepair == RepairInit /\ AnnotIdle /\ DictIdle /\ VocabIdle /\ WalkIdle /\ KanaIdle
    /\ BookIdle /\ TermsIdle
    /\ DedupeIdle
    /\ RegistryIdle
    /\ ClassIdle
    /\ MergeIdle

NextRepair ==
    \/ FixSplit /\ UNCHANGED <<annotVars, dictVars, vocabVars, walkVars, kanaVars, bookVars, termVars, dedupeVars, registryVars, classVars, mergeVars>>
    \/ FixPass /\ UNCHANGED <<annotVars, dictVars, vocabVars, walkVars, kanaVars, bookVars, termVars, dedupeVars, registryVars, classVars, mergeVars>>
    \/ FixReturn /\ UNCHANGED <<annotVars, dictVars, vocabVars, walkVars, kanaVars, bookVars, termVars, dedupeVars, registryVars, classVars, mergeVars>>
    \/ FixAgain /\ UNCHANGED <<annotVars, dictVars, vocabVars, walkVars, kanaVars, bookVars, termVars, dedupeVars, registryVars, classVars, mergeVars>>

SpecRepair == InitRepair /\ [][NextRepair]_vars

InitWalk == WalkInit /\ AnnotIdle /\ DictIdle /\ VocabIdle /\ RepairIdle /\ KanaIdle
    /\ BookIdle /\ TermsIdle
    /\ DedupeIdle
    /\ RegistryIdle
    /\ ClassIdle
    /\ MergeIdle

NextWalk ==
    \/ WalkDecompose /\ UNCHANGED <<annotVars, dictVars, vocabVars, repairVars, kanaVars, bookVars, termVars, dedupeVars, registryVars, classVars, mergeVars>>
    \/ WalkImages /\ UNCHANGED <<annotVars, dictVars, vocabVars, repairVars, kanaVars, bookVars, termVars, dedupeVars, registryVars, classVars, mergeVars>>
    \/ WalkExtract /\ UNCHANGED <<annotVars, dictVars, vocabVars, repairVars, kanaVars, bookVars, termVars, dedupeVars, registryVars, classVars, mergeVars>>
    \/ WalkCleanup /\ UNCHANGED <<annotVars, dictVars, vocabVars, repairVars, kanaVars, bookVars, termVars, dedupeVars, registryVars, classVars, mergeVars>>

SpecWalk == InitWalk /\ [][NextWalk]_vars

InitKana ==
    KanaInit /\ AnnotIdle /\ DictIdle /\ VocabIdle /\ RepairIdle /\ WalkIdle
    /\ BookIdle /\ TermsIdle
    /\ DedupeIdle
    /\ RegistryIdle
    /\ ClassIdle
    /\ MergeIdle

NextKana ==
    \/ KanaLongMark
         /\ UNCHANGED <<annotVars, dictVars, vocabVars, repairVars, walkVars, bookVars, termVars, dedupeVars, registryVars, classVars, mergeVars>>
    \/ KanaKatakana
         /\ UNCHANGED <<annotVars, dictVars, vocabVars, repairVars, walkVars, bookVars, termVars, dedupeVars, registryVars, classVars, mergeVars>>
    \/ KanaOther
         /\ UNCHANGED <<annotVars, dictVars, vocabVars, repairVars, walkVars, bookVars, termVars, dedupeVars, registryVars, classVars, mergeVars>>
    \/ KanaReturn
         /\ UNCHANGED <<annotVars, dictVars, vocabVars, repairVars, walkVars, bookVars, termVars, dedupeVars, registryVars, classVars, mergeVars>>

SpecKana == InitKana /\ [][NextKana]_vars

InitBook ==
    BookInit /\ AnnotIdle /\ DictIdle /\ VocabIdle /\ RepairIdle /\ WalkIdle
    /\ KanaIdle /\ TermsIdle
    /\ DedupeIdle
    /\ RegistryIdle
    /\ ClassIdle
    /\ MergeIdle

NextBook ==
    \/ BookChapter
         /\ UNCHANGED <<annotVars, dictVars, vocabVars, repairVars, walkVars, kanaVars, termVars, dedupeVars, registryVars, classVars, mergeVars>>
    \/ BookOtherItem
         /\ UNCHANGED <<annotVars, dictVars, vocabVars, repairVars, walkVars, kanaVars, termVars, dedupeVars, registryVars, classVars, mergeVars>>
    \/ BookFails
         /\ UNCHANGED <<annotVars, dictVars, vocabVars, repairVars, walkVars, kanaVars, termVars, dedupeVars, registryVars, classVars, mergeVars>>
    \/ BookDone
         /\ UNCHANGED <<annotVars, dictVars, vocabVars, repairVars, walkVars, kanaVars, termVars, dedupeVars, registryVars, classVars, mergeVars>>

SpecBook == InitBook /\ [][NextBook]_vars

InitTerms ==
    TermsInit /\ AnnotIdle /\ DictIdle /\ VocabIdle /\ RepairIdle /\ WalkIdle
    /\ KanaIdle /\ BookIdle
    /\ DedupeIdle
    /\ RegistryIdle
    /\ ClassIdle
    /\ MergeIdle

NextTerms ==
    \/ TermsNoRt
         /\ UNCHANGED <<annotVars, dictVars, vocabVars, repairVars, walkVars, kanaVars, bookVars, dedupeVars, registryVars, classVars, mergeVars>>
    \/ TermsCount
         /\ UNCHANGED <<annotVars, dictVars, vocabVars, repairVars, walkVars, kanaVars, bookVars, dedupeVars, registryVars, classVars, mergeVars>>
    \/ TermsEmpty
         /\ UNCHANGED <<annotVars, dictVars, vocabVars, repairVars, walkVars, kanaVars, bookVars, dedupeVars, registryVars, classVars, mergeVars>>
    \/ TermsResolve
         /\ UNCHANGED <<annotVars, dictVars, vocabVars, repairVars, walkVars, kanaVars, bookVars, dedupeVars, registryVars, classVars, mergeVars>>

SpecTerms == InitTerms /\ [][NextTerms]_vars

InitDedupe ==
    DedupeInit
    /\ AnnotIdle
    /\ DictIdle
    /\ VocabIdle
    /\ RepairIdle
    /\ WalkIdle
    /\ KanaIdle
    /\ BookIdle
    /\ TermsIdle
    /\ RegistryIdle
    /\ ClassIdle
    /\ MergeIdle

NextDedupe ==
    \/ ParseSplit
         /\ UNCHANGED <<annotVars, dictVars, vocabVars, repairVars, walkVars, kanaVars, bookVars, termVars, registryVars, classVars, mergeVars>>
    \/ ParseTagLine
         /\ UNCHANGED <<annotVars, dictVars, vocabVars, repairVars, walkVars, kanaVars, bookVars, termVars, registryVars, classVars, mergeVars>>
    \/ ParseHeader
         /\ UNCHANGED <<annotVars, dictVars, vocabVars, repairVars, walkVars, kanaVars, bookVars, termVars, registryVars, classVars, mergeVars>>
    \/ ParseBody
         /\ UNCHANGED <<annotVars, dictVars, vocabVars, repairVars, walkVars, kanaVars, bookVars, termVars, registryVars, classVars, mergeVars>>
    \/ ParsePreamble
         /\ UNCHANGED <<annotVars, dictVars, vocabVars, repairVars, walkVars, kanaVars, bookVars, termVars, registryVars, classVars, mergeVars>>
    \/ ParseReturn
         /\ UNCHANGED <<annotVars, dictVars, vocabVars, repairVars, walkVars, kanaVars, bookVars, termVars, registryVars, classVars, mergeVars>>
    \/ DedupeFind
         /\ UNCHANGED <<annotVars, dictVars, vocabVars, repairVars, walkVars, kanaVars, bookVars, termVars, registryVars, classVars, mergeVars>>
    \/ DedupeContent
         /\ UNCHANGED <<annotVars, dictVars, vocabVars, repairVars, walkVars, kanaVars, bookVars, termVars, registryVars, classVars, mergeVars>>

SpecDedupe == InitDedupe /\ [][NextDedupe]_vars

InitRegistry ==
    RegistryInit
    /\ AnnotIdle
    /\ DictIdle
    /\ VocabIdle
    /\ RepairIdle
    /\ WalkIdle
    /\ KanaIdle
    /\ BookIdle
    /\ TermsIdle
    /\ DedupeIdle
    /\ ClassIdle
    /\ MergeIdle

NextRegistry ==
    \/ RegistryUpdate
         /\ UNCHANGED <<annotVars, dictVars, vocabVars, repairVars, walkVars, kanaVars, bookVars, termVars, dedupeVars, classVars, mergeVars>>
    \/ RegistryMigrate
         /\ UNCHANGED <<annotVars, dictVars, vocabVars, repairVars, walkVars, kanaVars, bookVars, termVars, dedupeVars, classVars, mergeVars>>
    \/ RegistryRewrite
         /\ UNCHANGED <<annotVars, dictVars, vocabVars, repairVars, walkVars, kanaVars, bookVars, termVars, dedupeVars, classVars, mergeVars>>
    \/ RegistryCreate
         /\ UNCHANGED <<annotVars, dictVars, vocabVars, repairVars, walkVars, kanaVars, bookVars, termVars, dedupeVars, classVars, mergeVars>>
    \/ RegistryConvert
         /\ UNCHANGED <<annotVars, dictVars, vocabVars, repairVars, walkVars, kanaVars, bookVars, termVars, dedupeVars, classVars, mergeVars>>

SpecRegistry == InitRegistry /\ [][NextRegistry]_vars

InitClass ==
    ClassInit
    /\ AnnotIdle
    /\ DictIdle
    /\ VocabIdle
    /\ RepairIdle
    /\ WalkIdle
    /\ KanaIdle
    /\ BookIdle
    /\ TermsIdle
    /\ DedupeIdle
    /\ RegistryIdle
    /\ MergeIdle

NextClass ==
    \/ ClassifyAnnot
         /\ UNCHANGED <<annotVars, dictVars, vocabVars, repairVars, walkVars, kanaVars, bookVars, termVars, dedupeVars, registryVars, mergeVars>>
    \/ ClassifyVocab
         /\ UNCHANGED <<annotVars, dictVars, vocabVars, repairVars, walkVars, kanaVars, bookVars, termVars, dedupeVars, registryVars, mergeVars>>
    \/ ClassifyRepair
         /\ UNCHANGED <<annotVars, dictVars, vocabVars, repairVars, walkVars, kanaVars, bookVars, termVars, dedupeVars, registryVars, mergeVars>>

SpecClass == InitClass /\ [][NextClass]_vars

InitMerge ==
    MergeInit
    /\ AnnotIdle
    /\ DictIdle
    /\ VocabIdle
    /\ RepairIdle
    /\ WalkIdle
    /\ KanaIdle
    /\ BookIdle
    /\ TermsIdle
    /\ DedupeIdle
    /\ RegistryIdle
    /\ ClassIdle

NextMerge ==
    \/ MergeCall
         /\ UNCHANGED <<annotVars, dictVars, vocabVars, repairVars, walkVars, kanaVars, bookVars, termVars, dedupeVars, registryVars, classVars>>

SpecMerge == InitMerge /\ [][NextMerge]_vars

=============================================================================
